---- MODULE Spec2Model ----
(***************************************************************************)
(* A model of rs_service_client: the fetch pipelines, the token caches and *)
(* the discovery layer.                                                    *)
(*                                                                         *)
(* The repository holds two fetch pipelines:                               *)
(*   - service_trait.rs: Service::fetch / fetch_util::do_fetch, with a     *)
(*     token map and an in-flight map keyed by the request URL, both       *)
(*     borrowed mutably (one fetch at a time on a pair of maps);           *)
(*     specification SpecTrait.                                            *)
(*   - service.rs, directory.rs, cmdesc.rs: ServiceClient and its          *)
(*     collaborators, with token maps keyed by ServiceType behind a        *)
(*     tokio Mutex, used by concurrent callers; specification SpecClient.  *)
(* discovery.rs is modelled by specification SpecDiscovery.                *)
(***************************************************************************)
EXTENDS Integers, Sequences, FiniteSets, TLC

(***************************************************************************)
(* Bounds of the model.                                                    *)
(***************************************************************************)
\* Fetches made with request descriptors.
MaxSends == 2
\* Fetches started on one pair of maps (service_trait.rs pipeline).
MaxFetches == 3
\* Request URLs used as keys of the maps of service_trait.rs: 1..NumUrls.
NumUrls == 2
\* Operations started on one ServiceClient, over all callers.
MaxOps == 2
\* Operations on one DiscoveryInterface.
MaxResolves == 3
\* Advertisements in one answer of the Directory service.
MaxAdverts == 2
\* Trailing slashes of an advertised URL.
MaxSlashes == 2
\* The strings parsed have at most this many '/'-separated segments.
MaxSegments == 6
\* The longest list of identifiers a ConfigDb search answers.
MaxFound == 3

(***************************************************************************)
(* Program constants.                                                      *)
(***************************************************************************)
\* http::StatusCode::OK
OK == 200
\* http::StatusCode::UNAUTHORIZED
UNAUTHORIZED == 401
\* http::StatusCode::FORBIDDEN, a status no code path names
FORBIDDEN == 403
\* http::StatusCode::NOT_FOUND
NOT_FOUND == 404
\* http::StatusCode::INTERNAL_SERVER_ERROR
INTERNAL_SERVER_ERROR == 500
\* The token String::new() of the empty TokenStruct; every other token is the
\* serial number (1, 2, ...) of the acquisition that issued it.
EmptyToken == 0

VARIABLES
    \* ---- service_trait.rs pipeline -------------------------------------
    url_tokens,        \* tokens: HashMap<String, TokenStruct>, as a function on the keys present
    in_flight_tokens,  \* in_flight_tokens: HashMap<String, Pin<Box<Future>>>: "pending" | "completed"
    t_pc,              \* where the one running fetch is: idle | await_token | send | done | panicked
    t_url,             \* opts.url of the running fetch
    t_attempt,         \* 1: first try_fetch, 2: the retry
    t_attached,        \* TRUE when awaiting a future found in in_flight_tokens (line 445)
    t_token,           \* the token try_fetch sends as the bearer credential
    t_first,           \* what the first try_fetch returned
    t_result,          \* what do_fetch returned
    t_http,            \* the HTTP calls the running fetch executed: <<[token, status]>>
    t_acqs,            \* fetch_token futures the running fetch created
    t_fetches,         \* fetches started so far
    t_serial,          \* tokens the endpoint has issued so far (the next token is t_serial + 1)
    t_failed,          \* the URLs whose last completed token acquisition failed
    t_auth,            \* the status of the last answer to a token request of the running fetch (0: none)
    \* ---- ServiceClient and its collaborators ----------------------------
    tokens,            \* ServiceClient.tokens: Arc<Mutex<HashMap<ServiceType, TokenStruct>>>
    directory_tokens,  \* DirectoryInterface.tokens, its own map (directory.rs line 43)
    tokens_lock,       \* the callers holding the Mutex of tokens: {} or one caller
    directory_lock,    \* the callers holding the Mutex of directory_tokens
    c_pc,              \* per caller: idle | lock_wait | acquiring | http | reauth_acquiring | reauth_lock | done
    c_op,              \* per caller: fetch | ping | re_auth | directory | cmdesc
    c_service,         \* per caller: the ServiceType of the operation
    c_token,           \* per caller: the token its lookup returned, or re_auth_service acquired
    c_outcome,         \* per caller: what its token lookup returned
    c_result,          \* per caller: what the operation returned
    c_absent,          \* per caller: the key had no token when the lookup was requested
    c_acquired,        \* per caller: the lookup called get_new_token
    c_conc,            \* per caller: the callers whose lookup of the same key overlapped its own
    acquired,          \* per entry point and key: successful acquisitions made by token lookups
    rejected,          \* the services that answered 401 to a request
    ops,               \* operations started so far
    serial,            \* tokens the Authentication endpoint has issued so far
    \* ---- DiscoveryInterface -------------------------------------------
    urls,              \* DiscoveryInterface.urls: HashMap<ServiceType, Vec<String>>
    d_result,          \* what the last operation on the DiscoveryInterface returned
    d_queries,         \* per service: the Directory queries issued for it
    d_resolved,        \* the services a Directory query has resolved to a URL list
    d_later,           \* per service: the Directory queries issued after it was resolved
    d_ops,             \* operations so far
    d_last,            \* the last operation: its name, its service, whether it called service_urls
    \* ---- the users of a resolved URL list --------------------------------
    u_resolved,        \* the result of a resolve handed to Service::fetch and get_mqtt_client
    u_fetch,           \* what Service::fetch made of it
    u_mqtt,            \* what get_mqtt_client made of it, no host address given
    u_host,            \* what get_mqtt_client did with a host address given
    u_asked,           \* the calls of get_mqtt_client that called get_service_urls
    k_pc,              \* ServiceClient::from: resolving | built | panicked
    k_urls,            \* ServiceClient::from: the URL lists resolved so far, in the order of the calls
    \* ---- request descriptors ---------------------------------------------
    r_opts,            \* the caller's descriptor (ServiceOpts / FetchOpts): url, headers, body
    r_orig,            \* the descriptor as the caller made it
    r_target,          \* maybe_target_service_uuid is Some
    r_resolved,        \* what the discovery interface resolves the target service to
    r_sent,            \* per fetch: what it returned early, or the request it handed on
    \* ---- sparkplug addresses and topics ----------------------------------
    s_input,           \* the string given to a parser
    s_pc,              \* input | address | formatted | reparsed | topic | topic_formatted
    s_address,         \* Address::from_str(s_input)
    s_formatted,       \* the Display of the parsed address
    s_reparsed,        \* Address::from_str of that
    s_topic,           \* Topic::from_str(s_input)
    s_topic_formatted, \* the Display of the parsed topic
    m_pattern,         \* the receiver of Address::matches
    m_candidate,       \* its argument
    m_pc,              \* ready | done
    m_matches,         \* what matches returned
    \* ---- service identifiers ---------------------------------------------
    y_id,              \* the identifier given to ServiceType::new
    y_new,             \* what ServiceType::new returned
    y_variant,         \* the ServiceType (service.rs) to_uuid is called on
    y_uuid,            \* what to_uuid returned
    \* ---- Service::ping (service_trait.rs) ---------------------------------
    p_pc,              \* idle | done
    p_reached,         \* whether ping's fetch got as far as do_fetch
    p_response,        \* what do_fetch returned to ping's fetch, if reached
    p_result,          \* what ping returned
    \* ---- ConfigDbInterface ------------------------------------------------
    g_obj,             \* maybe_obj_uuid of create_object: <<>> or <<uuid>>
    g_exclusive,       \* is_exclusive of create_object
    g_pc,              \* ready | resolved | created
    g_reply,           \* what self.fetch returned to search / create_object
    g_result,          \* what resolve / create_object returned
    \* ---- is_idempotent -----------------------------------------------------
    i_opts,            \* the descriptor given to is_idempotent
    i_pc,              \* ready | done
    i_result           \* what is_idempotent returned

varsTrait == <<url_tokens, in_flight_tokens, t_pc, t_url, t_attempt, t_attached, t_token,
               t_first, t_result, t_http, t_acqs, t_fetches, t_serial, t_failed, t_auth>>

varsClient == <<tokens, directory_tokens, tokens_lock, directory_lock, c_pc, c_op, c_service,
                c_token, c_outcome, c_result, c_absent, c_acquired, c_conc, acquired,
                rejected, ops, serial>>

varsDiscovery == <<urls, d_result, d_queries, d_resolved, d_later, d_ops, d_last>>

varsUse == <<u_resolved, u_fetch, u_mqtt, u_host, u_asked, k_pc, k_urls>>

varsRequest == <<r_opts, r_orig, r_target, r_resolved, r_sent>>

varsSparkplug == <<s_input, s_pc, s_address, s_formatted, s_reparsed, s_topic,
                   s_topic_formatted,
                   m_pattern, m_candidate, m_pc, m_matches>>

varsService == <<y_id, y_new, y_variant, y_uuid>>

varsPing == <<p_pc, p_reached, p_response, p_result>>

varsConfigDb == <<g_obj, g_exclusive, g_pc, g_reply, g_result>>

varsIdempotent == <<i_opts, i_pc, i_result>>

vars == <<varsTrait, varsClient, varsDiscovery, varsUse, varsRequest, varsSparkplug,
          varsService, varsPing, varsConfigDb, varsIdempotent>>

(***************************************************************************)
(* HashMap helpers: a map is a function whose domain is the keys present.  *)
(***************************************************************************)
EmptyMap == [k \in {} |-> 0]

\* An insert that keeps no other entry.
InsertOnly(m, k, v) == [x \in {k} |-> v]

\* HashMap::insert: the entry of k is replaced, every other entry is kept.
Insert(m, k, v) == [x \in (DOMAIN m) \cup {k} |-> IF x = k THEN v ELSE m[x]]

(***************************************************************************)
(* Responses: Result<FetchResponse, FetchError>.                           *)
(***************************************************************************)
NoResp == [kind |-> "none", status |-> 0, message |-> ""]
OkResp(status) == [kind |-> "Ok", status |-> status, message |-> ""]
ErrResp(message) == [kind |-> "Err", status |-> 0, message |-> message]

\* The statuses a service answers with.
Statuses == {OK, UNAUTHORIZED, FORBIDDEN, NOT_FOUND, INTERNAL_SERVER_ERROR}

Urls == 1..NumUrls

(***************************************************************************)
(* service_trait.rs: fetch_util.                                           *)
(***************************************************************************)
\* What the Authentication endpoint may answer to POST <url>/token.
AuthReplies ==
    [net : {"ok"}, status : Statuses, body : {"token", "empty_token", "garbage"}]
    \cup [net : {"fail"}, status : {0}, body : {"none"}]

\* What a service may answer to the request itself.
HttpReplies ==
    [net : {"ok"}, status : Statuses, body : {"text", "undecodable"}]
    \cup [net : {"fail"}, status : {0}, body : {"none"}]

TokenOk(token) == [kind |-> "Ok", token |-> token, message |-> ""]
TokenErr(message) == [kind |-> "Err", token |-> EmptyToken, message |-> message]

\* gss_fetch: a 401 and a transport failure are errors, every other status is
\* handed back as a response.
gss_fetch(reply) ==
    IF reply.net = "fail" THEN ErrResp("transport error")
    ELSE IF reply.status = UNAUTHORIZED
         THEN ErrResp("Unable to authenticate with Basic auth.")
         ELSE OkResp(reply.status)

\* fetch_token: the token of a 200 answer with a decodable body; `fresh` is the
\* token the endpoint issues.
fetch_token(reply, fresh) ==
    LET response == gss_fetch(reply) IN
    IF response.kind = "Err" THEN TokenErr(response.message)
    ELSE IF response.status # OK THEN TokenErr("Token fetch failed.")
    ELSE IF reply.body = "garbage"
         THEN TokenErr("Unable to deserialise response into a token.")
         ELSE TokenOk(IF reply.body = "empty_token" THEN EmptyToken ELSE fresh)

\* The bad_token try_fetch hands to service_token: always the empty token.
try_fetch_bad_token == EmptyToken

\* service_token, lines 472-478: whether the local token is the bad token.
is_bad(bad, token) == bad = token

\* service_token, line 481: the local token is returned as it is.
local_token_ok(token) == token # EmptyToken /\ ~is_bad(try_fetch_bad_token, token)

\* service_token up to its first await, on maps tk (tokens) and inf
\* (in_flight_tokens): a cached token is returned, a future found in
\* in_flight_tokens is awaited (a completed one panics when polled again),
\* otherwise a new fetch_token future is inserted and awaited.
service_token_begin(tk, inf, k) ==
    LET own == [pc |-> "await_token", attached |-> FALSE, token |-> EmptyToken,
                inf |-> Insert(inf, k, "pending"), new |-> 1]
    IN
    IF k \notin DOMAIN tk
    THEN IF k \in DOMAIN inf
         THEN IF inf[k] = "completed"
              THEN [pc |-> "panicked", attached |-> TRUE, token |-> EmptyToken,
                    inf |-> inf, new |-> 0]
              ELSE [pc |-> "await_token", attached |-> TRUE, token |-> EmptyToken,
                    inf |-> inf, new |-> 0]
         ELSE own
    ELSE IF local_token_ok(tk[k])
         THEN [pc |-> "send", attached |-> FALSE, token |-> tk[k], inf |-> inf, new |-> 0]
         ELSE own

\* A do_fetch that retries every response other than 200.
do_fetch_retries_non_ok(response) == response.kind = "Ok" /\ response.status # OK

\* do_fetch, lines 306-307: the first response is retried.
do_fetch_retries(response) == response.kind = "Ok" /\ response.status = UNAUTHORIZED

\* do_fetch after a try_fetch returned `response` with the maps at tk and inf:
\* the first response is retried when do_fetch_retries, and the retry runs
\* service_token to its first await; anything else is returned.
after_try_fetch(response, tk, inf) ==
    IF t_attempt = 1 /\ do_fetch_retries(response)
    THEN LET b == service_token_begin(tk, inf, t_url) IN
         [pc |-> b.pc, attempt |-> 2, attached |-> b.attached, token |-> b.token,
          first |-> response, result |-> NoResp, tokens |-> tk, inf |-> b.inf,
          acqs |-> t_acqs + b.new]
    ELSE [pc |-> "done", attempt |-> t_attempt, attached |-> FALSE, token |-> t_token,
          first |-> IF t_attempt = 1 THEN response ELSE t_first,
          result |-> response, tokens |-> tk, inf |-> inf, acqs |-> t_acqs]

\* The state of the running fetch and of the maps after a step that ends in n.
TraitBecomes(n) ==
    /\ t_pc' = n.pc
    /\ t_attempt' = n.attempt
    /\ t_attached' = n.attached
    /\ t_token' = n.token
    /\ t_first' = n.first
    /\ t_result' = n.result
    /\ url_tokens' = n.tokens
    /\ in_flight_tokens' = n.inf
    /\ t_acqs' = n.acqs

\* Service::fetch -> do_fetch -> try_fetch -> service_token, to the first await.
StartFetch(k) ==
    /\ t_pc = "idle"
    /\ t_fetches < MaxFetches
    /\ t_fetches' = t_fetches + 1
    /\ t_url' = k
    /\ t_http' = <<>>
    /\ LET b == service_token_begin(url_tokens, in_flight_tokens, k) IN
       TraitBecomes([pc |-> b.pc, attempt |-> 1, attached |-> b.attached,
                     token |-> b.token, first |-> NoResp, result |-> NoResp,
                     tokens |-> url_tokens, inf |-> b.inf, acqs |-> b.new])
    /\ t_auth' = 0
    /\ UNCHANGED <<t_serial, t_failed>>
    /\ UNCHANGED <<varsClient, varsDiscovery, varsUse, varsRequest, varsSparkplug,
                   varsService, varsPing, varsConfigDb, varsIdempotent>>

\* The awaited future of in_flight_tokens completes with the endpoint's reply.
\* The caller that inserted it stores an Ok token (lines 457-460); a caller that
\* found it in the map returns its result as it is (line 445). try_fetch then
\* answers 401 for an empty token, sends the request with any other token, and
\* turns every token error into FetchError { "", "" }.
TokenArrives(reply) ==
    /\ t_pc = "await_token"
    /\ t_serial' = IF fetch_token(reply, t_serial + 1).kind = "Ok"
                   THEN t_serial + 1 ELSE t_serial
    /\ t_failed' = IF fetch_token(reply, t_serial + 1).kind = "Err"
                   THEN t_failed \cup {t_url} ELSE t_failed \ {t_url}
    /\ LET r == fetch_token(reply, t_serial + 1)
           tk == IF r.kind = "Ok" /\ ~t_attached
                 THEN Insert(url_tokens, t_url, r.token) ELSE url_tokens
           inf == Insert(in_flight_tokens, t_url, "completed")
       IN
       IF r.kind = "Ok" /\ r.token # EmptyToken
       THEN TraitBecomes([pc |-> "send", attempt |-> t_attempt, attached |-> FALSE,
                          token |-> r.token, first |-> t_first, result |-> NoResp,
                          tokens |-> tk, inf |-> inf, acqs |-> t_acqs])
       ELSE TraitBecomes(after_try_fetch(
                IF r.kind = "Ok" THEN OkResp(UNAUTHORIZED) ELSE ErrResp(""), tk, inf))
    /\ t_auth' = reply.status
    /\ UNCHANGED <<t_url, t_http, t_fetches>>
    /\ UNCHANGED <<varsClient, varsDiscovery, varsUse, varsRequest, varsSparkplug,
                   varsService, varsPing, varsConfigDb, varsIdempotent>>

\* try_fetch, lines 393-410: the request is sent and answered. The body of an
\* answer is unwrapped (line 403): an undecodable body panics.
HttpResponds(reply) ==
    /\ t_pc = "send"
    /\ t_http' = Append(t_http, [token |-> t_token, status |-> reply.status])
    /\ IF reply.net = "fail"
       THEN TraitBecomes(after_try_fetch(ErrResp("Couldn't make request"),
                                         url_tokens, in_flight_tokens))
       ELSE IF reply.body = "undecodable"
       THEN /\ t_pc' = "panicked"
            /\ UNCHANGED <<t_attempt, t_attached, t_token, t_first, t_result,
                           url_tokens, in_flight_tokens, t_acqs>>
       ELSE TraitBecomes(after_try_fetch(OkResp(reply.status),
                                         url_tokens, in_flight_tokens))
    /\ UNCHANGED <<t_url, t_fetches, t_serial, t_failed, t_auth>>
    /\ UNCHANGED <<varsClient, varsDiscovery, varsUse, varsRequest, varsSparkplug,
                   varsService, varsPing, varsConfigDb, varsIdempotent>>

\* The caller drops the fetch at a suspension point: the maps, which it
\* borrowed, stay as they are, a pending future of in_flight_tokens included.
CancelFetch ==
    /\ t_pc \in {"await_token", "send"}
    /\ t_pc' = "idle"
    /\ UNCHANGED <<url_tokens, in_flight_tokens, t_url, t_attempt, t_attached, t_token,
                   t_first, t_result, t_http, t_acqs, t_fetches, t_serial, t_failed, t_auth>>
    /\ UNCHANGED <<varsClient, varsDiscovery, varsUse, varsRequest, varsSparkplug,
                   varsService, varsPing, varsConfigDb, varsIdempotent>>

\* do_fetch has returned; the caller may start the next fetch on the same maps.
ReturnFetch ==
    /\ t_pc = "done"
    /\ t_pc' = "idle"
    /\ UNCHANGED <<url_tokens, in_flight_tokens, t_url, t_attempt, t_attached, t_token,
                   t_first, t_result, t_http, t_acqs, t_fetches, t_serial, t_failed, t_auth>>
    /\ UNCHANGED <<varsClient, varsDiscovery, varsUse, varsRequest, varsSparkplug,
                   varsService, varsPing, varsConfigDb, varsIdempotent>>

\* What do_fetch may return to Service::fetch: the response with its status,
\* or the error of a request that failed or of a token that was not obtained.
DoFetchResults ==
    {OkResp(status) : status \in Statuses}
    \cup {ErrResp("Couldn't make request"), ErrResp("")}

\* The directory_url of the FetchRequest that Service::ping builds (line 107).
PingDirectoryUrl == <<>>

\* Service::fetch before do_fetch: the header value "application/json" is
\* always valid; an empty directory_url is an error (lines 47-52).
fetch_checks(directory_url) ==
    IF directory_url = <<>> THEN ErrResp("Directory url is empty") ELSE NoResp

NotPinged == [kind |-> "none", some |-> FALSE, message |-> ""]
PingSome == [kind |-> "Ok", some |-> TRUE, message |-> ""]
PingNone == [kind |-> "Ok", some |-> FALSE, message |-> ""]
PingErr(message) == [kind |-> "Err", some |-> FALSE, message |-> message]

\* Service::ping, lines 113-119: the error of fetch is returned by `?`, any
\* status but 200 is Ok(None), 200 is Ok(Some(PingResponse)).
ping_result(response) ==
    IF response.kind = "Err" THEN PingErr(response.message)
    ELSE IF response.status # OK THEN PingNone
    ELSE PingSome

\* Service::ping: a FetchRequest for "/ping" with empty credentials, an empty
\* directory_url and maps of its own is given to Service::fetch; response is
\* what do_fetch returns if fetch gets that far.
Ping(response) ==
    /\ p_pc' = "done"
    /\ LET checked == fetch_checks(PingDirectoryUrl) IN
       /\ p_reached' = (checked.kind # "Err")
       /\ p_response' = IF checked.kind = "Err" THEN NoResp ELSE response
       /\ p_result' = ping_result(IF checked.kind = "Err" THEN checked ELSE response)
    /\ UNCHANGED <<varsTrait, varsClient, varsDiscovery, varsUse, varsRequest,
                   varsSparkplug, varsService, varsConfigDb, varsIdempotent>>

\* Service::ping not called yet.
NoPing ==
    /\ p_pc = "idle"
    /\ p_reached = FALSE
    /\ p_response = NoResp
    /\ p_result = NotPinged

InitTrait ==
    /\ url_tokens = EmptyMap
    /\ in_flight_tokens = EmptyMap
    /\ t_pc = "idle"
    /\ t_url = 1
    /\ t_attempt = 1
    /\ t_attached = FALSE
    /\ t_token = EmptyToken
    /\ t_first = NoResp
    /\ t_result = NoResp
    /\ t_http = <<>>
    /\ t_acqs = 0
    /\ t_fetches = 0
    /\ t_serial = 0
    /\ t_failed = {}
    /\ t_auth = 0

NextTrait ==
    \/ \E k \in Urls : StartFetch(k)
    \/ \E reply \in AuthReplies : TokenArrives(reply)
    \/ \E reply \in HttpReplies : HttpResponds(reply)
    \/ CancelFetch
    \/ ReturnFetch
    \/ \E response \in DoFetchResults : Ping(response)


(***************************************************************************)
(* service.rs, directory.rs, cmdesc.rs: ServiceClient and collaborators.   *)
(***************************************************************************)
\* The concurrent callers of one ServiceClient: two tasks.
Callers == {"a", "b"}

\* enum ServiceType (service.rs lines 354-360).
Services == {"Directory", "ConfigDb", "Authentication", "MQTT", "CommandEscalation"}

\* The entry points of a token lookup: ServiceClient::fetch and ::ping,
\* DirectoryInterface::fetch, CmdEscInterface::fetch; and re_auth_service.
Ops == {"fetch", "ping", "re_auth", "directory", "cmdesc"}

\* The services an entry point addresses.
OpServices(op) ==
    IF op = "directory" THEN {"Directory"}
    ELSE IF op = "cmdesc" THEN {"CommandEscalation"}
    ELSE Services

\* The token map an operation uses: DirectoryInterface::from builds a map of
\* its own; CmdEscInterface::from takes the map it is given.
UsesDirectoryMap(op) == op = "directory"

TokenMap(op) == IF UsesDirectoryMap(op) THEN directory_tokens ELSE tokens
TokenLock(op) == IF UsesDirectoryMap(op) THEN directory_lock ELSE tokens_lock

\* The object whose method was called.
EntryPoint(op) == IF op \in {"directory", "cmdesc"} THEN op ELSE "client"
EntryPoints == {"client", "directory", "cmdesc"}

\* A lookup that inserts every new token under ServiceType::Directory.
insert_under_directory(op, service) == "Directory"

\* The key a new token is inserted under: get_service_token and
\* get_directory_token insert under the key they looked up, get_cmdesc_token
\* (cmdesc.rs line 159) under ServiceType::Directory.
InsertKey(op, service) == IF op = "cmdesc" THEN "Directory" ELSE service

\* The service whose URL get_new_token is given (the token request goes to
\* <that URL>/token): get_service_token and re_auth_service match on the
\* service asked for, the collaborators pass their own service_url.
token_service_url(op, service) ==
    IF op = "directory" THEN "Directory"
    ELSE IF op = "cmdesc" THEN "CommandEscalation"
    ELSE service

\* What the Authentication endpoint may answer to get_new_token.
NewTokenReplies ==
    [net : {"ok"}, status : Statuses, body : {"token", "garbage", "undecodable"}]
    \cup [net : {"fail"}, status : {0}, body : {"none"}]

\* The answers the callers of one ServiceClient are run against: a token, a
\* refusal, an answer that is no token, no answer.
ClientTokenReplies ==
    {r \in NewTokenReplies :
        \/ r.net = "fail"
        \/ r.status = OK /\ r.body \in {"token", "garbage"}
        \/ r.status = UNAUTHORIZED /\ r.body = "garbage"}

\* The answers of a service the callers of one ServiceClient are run against.
ClientHttpReplies ==
    {r \in HttpReplies :
        \/ r.net = "fail"
        \/ r.status \in {OK, UNAUTHORIZED} /\ r.body = "text"
        \/ r.status = OK /\ r.body = "undecodable"}

\* service.rs fetch_util::get_new_token and try_decode_token.
get_new_token(reply, fresh) ==
    IF reply.net = "fail" THEN TokenErr("Couldn't build token request.")
    ELSE IF reply.status = OK
         THEN IF reply.body = "undecodable" THEN TokenErr("No response body.")
              ELSE IF reply.body = "garbage"
                   THEN TokenErr("Couldn't decode response into token")
                   ELSE TokenOk(fresh)
    ELSE IF reply.status = UNAUTHORIZED
         THEN TokenErr("Error fetching new token: 401 Unauthorised.")
    ELSE IF reply.status = INTERNAL_SERVER_ERROR
         THEN TokenErr("Error fetching new token - 500 Server error.")
    ELSE IF reply.status = NOT_FOUND
         THEN TokenErr("Error fetching new token: 404 Not found.")
    ELSE TokenErr("Error fetching new token: " \o ToString(reply.status))

NoOutcome == [kind |-> "none", token |-> EmptyToken, message |-> ""]

\* What an operation returns: a response, a token (re_auth_service) or an error.
NoResult == [kind |-> "none", status |-> 0, token |-> EmptyToken, message |-> ""]
ResponseResult(status) ==
    [kind |-> "Ok", status |-> status, token |-> EmptyToken, message |-> ""]
TokenResult(token) == [kind |-> "Ok", status |-> 0, token |-> token, message |-> ""]
ErrResult(message) ==
    [kind |-> "Err", status |-> 0, token |-> EmptyToken, message |-> message]

\* The callers whose lookup of `service` in the map of `op` is under way.
LookingUp(op, service) ==
    {d \in Callers : /\ c_pc[d] \in {"lock_wait", "acquiring"}
                     /\ c_service[d] = service
                     /\ UsesDirectoryMap(c_op[d]) = UsesDirectoryMap(op)}

\* A caller calls fetch, ping, a DirectoryInterface or CmdEscInterface method,
\* which await the lock of their token map; or re_auth_service, which calls
\* get_new_token without the lock (service.rs lines 245-251).
Call(c, op, service) ==
    /\ c_pc[c] = "idle"
    /\ ops < MaxOps
    /\ service \in OpServices(op)
    /\ ops' = ops + 1
    /\ c_op' = [c_op EXCEPT ![c] = op]
    /\ c_service' = [c_service EXCEPT ![c] = service]
    /\ IF op = "re_auth"
       THEN /\ c_pc' = [c_pc EXCEPT ![c] = "reauth_acquiring"]
            /\ UNCHANGED <<c_absent, c_conc>>
       ELSE /\ c_pc' = [c_pc EXCEPT ![c] = "lock_wait"]
            /\ c_absent' = [c_absent EXCEPT ![c] = service \notin DOMAIN TokenMap(op)]
            /\ c_conc' = [d \in Callers |->
                            IF d = c THEN LookingUp(op, service)
                            ELSE IF d \in LookingUp(op, service)
                                 THEN c_conc[d] \cup {c} ELSE c_conc[d]]
    /\ UNCHANGED <<tokens, directory_tokens, tokens_lock, directory_lock, c_token,
                   c_outcome, c_result, c_acquired, acquired, rejected, serial>>
    /\ UNCHANGED <<varsTrait, varsDiscovery, varsUse, varsRequest, varsSparkplug,
                   varsService, varsPing, varsConfigDb, varsIdempotent>>

\* get_service_token / get_directory_token / get_cmdesc_token with the lock
\* taken: the key has a token, which is returned; the guard is dropped.
GetTokenHit(c) ==
    /\ c_pc[c] = "lock_wait"
    /\ TokenLock(c_op[c]) = {}
    /\ c_service[c] \in DOMAIN TokenMap(c_op[c])
    /\ c_token' = [c_token EXCEPT ![c] = TokenMap(c_op[c])[c_service[c]]]
    /\ c_outcome' = [c_outcome EXCEPT ![c] = TokenOk(TokenMap(c_op[c])[c_service[c]])]
    /\ c_pc' = [c_pc EXCEPT ![c] = "http"]
    /\ UNCHANGED <<tokens, directory_tokens, tokens_lock, directory_lock, c_op, c_service,
                   c_result, c_absent, c_acquired, c_conc, acquired, rejected, ops, serial>>
    /\ UNCHANGED <<varsTrait, varsDiscovery, varsUse, varsRequest, varsSparkplug,
                   varsService, varsPing, varsConfigDb, varsIdempotent>>

\* The same with no token for the key: get_new_token is awaited with the lock
\* held.
GetTokenMiss(c) ==
    /\ c_pc[c] = "lock_wait"
    /\ TokenLock(c_op[c]) = {}
    /\ c_service[c] \notin DOMAIN TokenMap(c_op[c])
    /\ IF UsesDirectoryMap(c_op[c])
       THEN directory_lock' = {c} /\ UNCHANGED tokens_lock
       ELSE tokens_lock' = {c} /\ UNCHANGED directory_lock
    /\ c_acquired' = [c_acquired EXCEPT ![c] = TRUE]
    /\ c_pc' = [c_pc EXCEPT ![c] = "acquiring"]
    /\ UNCHANGED <<tokens, directory_tokens, c_op, c_service, c_token, c_outcome, c_result,
                   c_absent, c_conc, acquired, rejected, ops, serial>>
    /\ UNCHANGED <<varsTrait, varsDiscovery, varsUse, varsRequest, varsSparkplug,
                   varsService, varsPing, varsConfigDb, varsIdempotent>>

\* get_new_token returns to the lookup: an Ok token is inserted and returned,
\* an error is returned by `?`; the guard is dropped either way.
TokenReply(c, reply) ==
    /\ c_pc[c] = "acquiring"
    /\ serial' = IF get_new_token(reply, serial + 1).kind = "Ok" THEN serial + 1 ELSE serial
    /\ LET r == get_new_token(reply, serial + 1)
           op == c_op[c]
           key == InsertKey(op, c_service[c])
       IN
       /\ c_outcome' = [c_outcome EXCEPT ![c] = r]
       /\ IF r.kind = "Ok"
          THEN /\ IF UsesDirectoryMap(op)
                  THEN /\ directory_tokens' = Insert(directory_tokens, key, r.token)
                       /\ UNCHANGED tokens
                  ELSE /\ tokens' = Insert(tokens, key, r.token)
                       /\ UNCHANGED directory_tokens
               /\ c_token' = [c_token EXCEPT ![c] = r.token]
               /\ c_pc' = [c_pc EXCEPT ![c] = "http"]
               /\ acquired' = [acquired EXCEPT ![EntryPoint(op)][c_service[c]] = @ + 1]
               /\ UNCHANGED c_result
          ELSE /\ c_pc' = [c_pc EXCEPT ![c] = "done"]
               /\ c_result' = [c_result EXCEPT ![c] = ErrResult(r.message)]
               /\ UNCHANGED <<tokens, directory_tokens, c_token, acquired>>
       /\ IF UsesDirectoryMap(op)
          THEN directory_lock' = {} /\ UNCHANGED tokens_lock
          ELSE tokens_lock' = {} /\ UNCHANGED directory_lock
    /\ UNCHANGED <<c_op, c_service, c_absent, c_acquired, c_conc, rejected, ops>>
    /\ UNCHANGED <<varsTrait, varsDiscovery, varsUse, varsRequest, varsSparkplug,
                   varsService, varsPing, varsConfigDb, varsIdempotent>>

\* fetch executes the request with the token as bearer credential and returns
\* the response as it is, a 401 included; ping turns it into a PingResponse.
HttpReply(c, reply) ==
    /\ c_pc[c] = "http"
    /\ c_pc' = [c_pc EXCEPT ![c] = "done"]
    /\ c_result' = [c_result EXCEPT ![c] =
            IF reply.net = "fail" THEN ErrResult("Couldn't make request.")
            ELSE IF reply.body = "undecodable"
                 THEN ErrResult("Couldn't decode response body.")
                 ELSE ResponseResult(reply.status)]
    /\ rejected' = IF reply.net = "ok" /\ reply.status = UNAUTHORIZED
                   THEN rejected \cup {c_service[c]} ELSE rejected
    /\ UNCHANGED <<tokens, directory_tokens, tokens_lock, directory_lock, c_op, c_service,
                   c_token, c_outcome, c_absent, c_acquired, c_conc, acquired, ops, serial>>
    /\ UNCHANGED <<varsTrait, varsDiscovery, varsUse, varsRequest, varsSparkplug,
                   varsService, varsPing, varsConfigDb, varsIdempotent>>

\* re_auth_service: get_new_token returns; an error is returned by `?`.
ReauthReply(c, reply) ==
    /\ c_pc[c] = "reauth_acquiring"
    /\ serial' = IF get_new_token(reply, serial + 1).kind = "Ok" THEN serial + 1 ELSE serial
    /\ LET r == get_new_token(reply, serial + 1) IN
       IF r.kind = "Ok"
       THEN /\ c_token' = [c_token EXCEPT ![c] = r.token]
            /\ c_pc' = [c_pc EXCEPT ![c] = "reauth_lock"]
            /\ UNCHANGED c_result
       ELSE /\ c_pc' = [c_pc EXCEPT ![c] = "done"]
            /\ c_result' = [c_result EXCEPT ![c] = ErrResult(r.message)]
            /\ UNCHANGED c_token
    /\ UNCHANGED <<tokens, directory_tokens, tokens_lock, directory_lock, c_op, c_service,
                   c_outcome, c_absent, c_acquired, c_conc, acquired, rejected, ops>>
    /\ UNCHANGED <<varsTrait, varsDiscovery, varsUse, varsRequest, varsSparkplug,
                   varsService, varsPing, varsConfigDb, varsIdempotent>>

\* re_auth_service, line 253: the new token is inserted under the lock.
ReauthInsert(c) ==
    /\ c_pc[c] = "reauth_lock"
    /\ tokens_lock = {}
    /\ tokens' = Insert(tokens, c_service[c], c_token[c])
    /\ c_result' = [c_result EXCEPT ![c] = TokenResult(c_token[c])]
    /\ c_pc' = [c_pc EXCEPT ![c] = "done"]
    /\ UNCHANGED <<directory_tokens, tokens_lock, directory_lock, c_op, c_service, c_token,
                   c_outcome, c_absent, c_acquired, c_conc, acquired, rejected, ops, serial>>
    /\ UNCHANGED <<varsTrait, varsDiscovery, varsUse, varsRequest, varsSparkplug,
                   varsService, varsPing, varsConfigDb, varsIdempotent>>

\* The operation has returned to its caller, which may start another.
Return(c) ==
    /\ c_pc[c] = "done"
    /\ c_pc' = [c_pc EXCEPT ![c] = "idle"]
    /\ c_token' = [c_token EXCEPT ![c] = EmptyToken]
    /\ c_outcome' = [c_outcome EXCEPT ![c] = NoOutcome]
    /\ c_result' = [c_result EXCEPT ![c] = NoResult]
    /\ c_absent' = [c_absent EXCEPT ![c] = FALSE]
    /\ c_acquired' = [c_acquired EXCEPT ![c] = FALSE]
    /\ c_conc' = [d \in Callers |-> IF d = c THEN {} ELSE c_conc[d] \ {c}]
    /\ c_op' = [c_op EXCEPT ![c] = "fetch"]
    /\ c_service' = [c_service EXCEPT ![c] = "Directory"]
    /\ UNCHANGED <<tokens, directory_tokens, tokens_lock, directory_lock,
                   acquired, rejected, ops, serial>>
    /\ UNCHANGED <<varsTrait, varsDiscovery, varsUse, varsRequest, varsSparkplug,
                   varsService, varsPing, varsConfigDb, varsIdempotent>>

\* ServiceClient::from: one empty token map, handed to the collaborators that
\* take one; DirectoryInterface::from starts with its own empty map.
InitClient ==
    /\ tokens = EmptyMap
    /\ directory_tokens = EmptyMap
    /\ tokens_lock = {}
    /\ directory_lock = {}
    /\ c_pc = [c \in Callers |-> "idle"]
    /\ c_op = [c \in Callers |-> "fetch"]
    /\ c_service = [c \in Callers |-> "Directory"]
    /\ c_token = [c \in Callers |-> EmptyToken]
    /\ c_outcome = [c \in Callers |-> NoOutcome]
    /\ c_result = [c \in Callers |-> NoResult]
    /\ c_absent = [c \in Callers |-> FALSE]
    /\ c_acquired = [c \in Callers |-> FALSE]
    /\ c_conc = [c \in Callers |-> {}]
    /\ acquired = [e \in EntryPoints |-> [s \in Services |-> 0]]
    /\ rejected = {}
    /\ ops = 0
    /\ serial = 0

NextClient ==
    \/ \E c \in Callers, op \in Ops, service \in Services : Call(c, op, service)
    \/ \E c \in Callers : GetTokenHit(c)
    \/ \E c \in Callers : GetTokenMiss(c)
    \/ \E c \in Callers, reply \in ClientTokenReplies : TokenReply(c, reply)
    \/ \E c \in Callers, reply \in ClientHttpReplies : HttpReply(c, reply)
    \/ \E c \in Callers, reply \in ClientTokenReplies : ReauthReply(c, reply)
    \/ \E c \in Callers : ReauthInsert(c)
    \/ \E c \in Callers : Return(c)

(***************************************************************************)
(* discovery.rs and DirectoryInterface::service_urls.                      *)
(***************************************************************************)
\* A URL: a name and the number of '/' it ends with.
Url(name, slashes) == [name |-> name, slashes |-> slashes]

\* The URL a service is configured with, and the one a caller registers.
StaticUrl == Url("static", 0)
NewUrl == Url("new", 0)

\* ServiceProvider { device, url: Option<String> } as the Directory sends it.
AdvertisedUrls == {Url("x", k) : k \in 0..MaxSlashes}
Providers ==
    [has_url : {TRUE}, url : AdvertisedUrls] \cup [has_url : {FALSE}, url : {StaticUrl}]

ProviderLists == UNION {[1..n -> Providers] : n \in 0..MaxAdverts}

\* What the Directory service may answer to GET /v1/service/<uuid>.
DirectoryReplies ==
    {[net |-> "ok", status |-> OK, body |-> "json", list |-> l] : l \in ProviderLists}
    \cup {[net |-> "ok", status |-> OK, body |-> b, list |-> <<>>] :
        b \in {"garbage", "undecodable"}}
    \cup {[net |-> "ok", status |-> NOT_FOUND, body |-> "json", list |-> <<>>]}
    \cup {[net |-> "fail", status |-> 0, body |-> "none", list |-> <<>>]}

\* Result<Option<Vec<String>>, FetchError>.
UrlsSome(list) == [kind |-> "Ok", some |-> TRUE, list |-> list, message |-> ""]
UrlsNone == [kind |-> "Ok", some |-> FALSE, list |-> <<>>, message |-> ""]
UrlsErr(message) == [kind |-> "Err", some |-> FALSE, list |-> <<>>, message |-> message]

\* service_urls, lines 73-78: one trailing '/' is stripped.
strip_suffix(url) ==
    IF url.slashes > 0 THEN [url EXCEPT !.slashes = @ - 1] ELSE url

HasUrl(provider) == provider.has_url

\* service_urls, lines 69-80: the providers with a url, their url stripped.
provider_urls(list) ==
    LET with_url == SelectSeq(list, HasUrl)
    IN [i \in 1..Len(with_url) |-> strip_suffix(with_url[i].url)]

\* DirectoryInterface::service_urls on the outcome of its token lookup and the
\* Directory's answer.
service_urls(token, reply) ==
    IF token.kind = "Err" THEN UrlsErr(token.message)
    ELSE IF reply.net = "fail" THEN UrlsErr("Couldn't make request.")
    ELSE IF reply.body = "undecodable" THEN UrlsErr("Couldn't decode response body.")
    ELSE IF reply.status = OK
         THEN IF reply.body = "garbage"
              THEN UrlsErr("Couldn't decode service response.")
              ELSE UrlsSome(provider_urls(reply.list))
         ELSE UrlsNone

\* get_directory_token of the DirectoryInterface a resolve is given: the
\* cached token, or what get_new_token makes of the Authentication reply.
DirectoryTokens ==
    IF "Directory" \in DOMAIN directory_tokens
    THEN {TokenOk(directory_tokens["Directory"])}
    ELSE {get_new_token(reply, serial + 1) : reply \in ClientTokenReplies}

\* The operation a caller ran last on the DiscoveryInterface.
LastOp(op, service, asked) == [op |-> op, service |-> service, asked |-> asked]

\* A get_service_urls that finds no service in urls.
known_never(service) == FALSE

\* get_service_urls, line 91: the service has an entry in urls.
known_locally(service) == service \in DOMAIN urls

\* get_service_urls of a service with an entry in urls: the entry is returned.
ResolveLocal(service) ==
    /\ d_ops < MaxResolves
    /\ known_locally(service)
    /\ d_ops' = d_ops + 1
    /\ d_result' = UrlsSome(urls[service])
    /\ d_last' = LastOp("resolve", service, FALSE)
    /\ UNCHANGED <<urls, d_queries, d_resolved, d_later>>
    /\ UNCHANGED <<varsTrait, varsClient, varsUse, varsRequest, varsSparkplug,
                   varsService, varsPing, varsConfigDb, varsIdempotent>>

\* get_service_urls of a service with no entry: find_service_urls asks the
\* Directory through DirectoryInterface::service_urls, whose fetch first looks
\* its token up (acquiring one with get_new_token when it has none) and then
\* sends the query. The answer is returned; urls is not written (&self).
ResolveRemote(service, reply) ==
    /\ d_ops < MaxResolves
    /\ ~known_locally(service)
    /\ d_ops' = d_ops + 1
    /\ d_last' = LastOp("resolve", service, TRUE)
    /\ \E token \in DirectoryTokens :
         LET cached == "Directory" \in DOMAIN directory_tokens
             result == service_urls(token, reply)
             queried == token.kind = "Ok"
         IN
         /\ directory_tokens' = IF ~cached /\ token.kind = "Ok"
                                THEN Insert(directory_tokens, "Directory", token.token)
                                ELSE directory_tokens
         /\ serial' = IF ~cached /\ token.kind = "Ok" THEN serial + 1 ELSE serial
         /\ d_result' = result
         /\ d_queries' = IF queried THEN [d_queries EXCEPT ![service] = @ + 1]
                         ELSE d_queries
         /\ d_later' = IF queried /\ service \in d_resolved
                       THEN [d_later EXCEPT ![service] = @ + 1] ELSE d_later
         /\ d_resolved' = IF result.kind = "Ok" /\ result.some
                          THEN d_resolved \cup {service} ELSE d_resolved
    /\ UNCHANGED urls
    /\ UNCHANGED <<tokens, tokens_lock, directory_lock, c_pc, c_op, c_service, c_token,
                   c_outcome, c_result, c_absent, c_acquired, c_conc, acquired, rejected,
                   ops>>
    /\ UNCHANGED <<varsTrait, varsUse, varsRequest, varsSparkplug, varsService, varsPing,
                   varsConfigDb, varsIdempotent>>

\* set_service_url: the entry becomes [url]; the old entry, if any, is returned.
SetServiceUrl(service, url) ==
    /\ d_ops < MaxResolves
    /\ d_ops' = d_ops + 1
    /\ urls' = Insert(urls, service, <<url>>)
    /\ d_last' = LastOp("set", service, FALSE)
    /\ d_result' = IF service \in DOMAIN urls THEN UrlsSome(urls[service]) ELSE UrlsNone
    /\ UNCHANGED <<d_queries, d_resolved, d_later>>
    /\ UNCHANGED <<varsTrait, varsClient, varsUse, varsRequest, varsSparkplug,
                   varsService, varsPing, varsConfigDb, varsIdempotent>>

\* add_service_url: url is pushed to the entry, which is created when missing.
AddServiceUrl(service, url) ==
    /\ d_ops < MaxResolves
    /\ d_ops' = d_ops + 1
    /\ urls' = Insert(urls, service,
                      Append(IF service \in DOMAIN urls THEN urls[service] ELSE <<>>, url))
    /\ d_result' = UrlsNone
    /\ d_last' = LastOp("add", service, FALSE)
    /\ UNCHANGED <<d_queries, d_resolved, d_later>>
    /\ UNCHANGED <<varsTrait, varsClient, varsUse, varsRequest, varsSparkplug,
                   varsService, varsPing, varsConfigDb, varsIdempotent>>

\* DiscoveryInterface::from: an entry [url] for every service given a URL.
DiscoveryFrom(configured) ==
    /\ urls = [s \in configured |-> <<StaticUrl>>]
    /\ d_result = UrlsNone
    /\ d_queries = [s \in Services |-> 0]
    /\ d_resolved = {}
    /\ d_later = [s \in Services |-> 0]
    /\ d_ops = 0
    /\ d_last = LastOp("none", "Directory", FALSE)

NextDiscovery ==
    \/ \E service \in Services : ResolveLocal(service)
    \/ \E service \in Services, reply \in DirectoryReplies : ResolveRemote(service, reply)
    \/ \E service \in Services : SetServiceUrl(service, NewUrl)
    \/ \E service \in Services : AddServiceUrl(service, NewUrl)

(***************************************************************************)
(* The users of a resolved URL list: Service::fetch (service_trait.rs),    *)
(* MQTTInterface::get_mqtt_client (mqtt.rs), ServiceClient::from.          *)
(***************************************************************************)
\* A URL or a path as the sequence of its parts; "/" is a part of its own.
UrlString(url) == <<url.name>> \o [i \in 1..url.slashes |-> "/"]

\* The path of a request descriptor, as the spec has it: it begins with '/'.
PingPath == <<"/", "ping">>

\* Whether the HTTP client can send to url: a URL with no scheme and host
\* (empty, or beginning with '/') is refused when the request is built.
is_absolute(url) == url # <<>> /\ url[1] # "/"

\* Service::fetch, line 73: unwrap_or_default of the resolve result.
unwrap_or_default(resolved) ==
    IF resolved.kind = "Ok" /\ resolved.some THEN resolved.list ELSE <<>>

\* Service::fetch, lines 75-78: the first URL of the list, or an empty string,
\* then '/', then the url of the descriptor.
amended_url(list, url) ==
    (IF list = <<>> THEN <<>> ELSE UrlString(list[1])) \o <<"/">> \o url

\* The outcome of an operation that uses the resolved list.
NotUsed == [kind |-> "none", message |-> "", url |-> <<>>]
UseErr(message, url) == [kind |-> "Err", message |-> message, url |-> url]
UsePanic == [kind |-> "panic", message |-> "", url |-> <<>>]
UseRequest(url) == [kind |-> "request", message |-> "", url |-> url]

\* Service::fetch of a descriptor with a target service and url `path`, to the
\* first request do_fetch makes: the token request of try_fetch. When the HTTP
\* client refuses its URL, gss_fetch returns an error, which try_fetch
\* (lines 418-423) turns into FetchError { "", "" }.
fetch_through(resolved, path) ==
    LET url == amended_url(unwrap_or_default(resolved), path) IN
    IF is_absolute(url) THEN UseRequest(url) ELSE UseErr("", <<>>)

\* get_mqtt_client, lines 64-79, with no host address given: the error of the
\* resolve is returned by `?`, a list is indexed at 0, None is an error.
mqtt_host(resolved) ==
    IF resolved.kind = "Err" THEN UseErr(resolved.message, <<>>)
    ELSE IF ~resolved.some THEN UseErr("No URL could be found", <<>>)
    ELSE IF resolved.list = <<>> THEN UsePanic
    ELSE UseRequest(UrlString(resolved.list[1]))

\* The results of a resolve: what service_urls makes of the Directory's answers.
ResolveResults ==
    {service_urls(token, reply) :
        token \in {TokenOk(1), TokenErr("Couldn't build token request.")},
        reply \in DirectoryReplies}

\* Service::fetch is called with a descriptor whose target resolves to u_resolved.
UseFetch ==
    /\ u_fetch = NotUsed
    /\ u_fetch' = fetch_through(u_resolved, PingPath)
    /\ UNCHANGED <<u_resolved, u_mqtt, u_host, u_asked, k_pc, k_urls>>
    /\ UNCHANGED <<varsTrait, varsClient, varsDiscovery, varsRequest, varsSparkplug,
                   varsService, varsPing, varsConfigDb, varsIdempotent>>

\* What basic_async_client may return: the connected client, a connection
\* with no connect response (ReasonCode::UnspecifiedError), or the error of
\* the MQTT library for a connection the broker does not accept.
ConnectOutcomes == {"connected", "no_response", "refused"}

\* The host address a caller gives.
GivenHost == <<"broker">>

\* get_mqtt_client, lines 83-99: the client for the host, or an MqttError with
\* the message for no response or the text of the library's error.
mqtt_connect(host, connects) ==
    IF connects = "connected" THEN UseRequest(host)
    ELSE IF connects = "no_response"
         THEN UseErr("No response from the MQTT service.", host)
         ELSE UseErr("paho_mqtt::Error", host)

\* get_mqtt_client is called with no host address: the MQTT service is
\* resolved, and a connection to the host found is attempted.
UseMqtt(connects) ==
    /\ u_mqtt = NotUsed
    /\ u_mqtt' = LET host == mqtt_host(u_resolved) IN
                 IF host.kind = "request" THEN mqtt_connect(host.url, connects) ELSE host
    /\ u_asked' = u_asked \cup {"no_host"}
    /\ UNCHANGED <<u_resolved, u_fetch, u_host, k_pc, k_urls>>
    /\ UNCHANGED <<varsTrait, varsClient, varsDiscovery, varsRequest, varsSparkplug,
                   varsService, varsPing, varsConfigDb, varsIdempotent>>

\* get_mqtt_client is called with Some(host address) (line 65): a connection
\* to it is attempted and get_service_urls is not called.
UseMqttHost(connects) ==
    /\ u_host = NotUsed
    /\ u_host' = mqtt_connect(GivenHost, connects)
    /\ UNCHANGED <<u_resolved, u_fetch, u_mqtt, u_asked, k_pc, k_urls>>
    /\ UNCHANGED <<varsTrait, varsClient, varsDiscovery, varsRequest, varsSparkplug,
                   varsService, varsPing, varsConfigDb, varsIdempotent>>

\* The services ServiceClient::from resolves, in the order of its calls
\* (service.rs lines 70-85).
ConstructServices == <<"ConfigDb", "MQTT", "Authentication", "CommandEscalation">>

\* The answers of the Directory a construction is run against: lists of at
\* most one provider.
ConstructReplies == {reply \in DirectoryReplies : Len(reply.list) <= 1}

\* ServiceClient::from, lines 87-119: `.unwrap().first().unwrap()` of a
\* resolved list yields the URL of the collaborator.
first_url_unwraps(resolved) == resolved.some /\ resolved.list # <<>>

\* ServiceClient::from: the next service_urls call returns and is unwrapped
\* (an Err panics); after the last one the collaborators are built from the
\* first URL of each list. The first call acquires the Directory token, the
\* later ones find it cached.
ConstructResolve(reply) ==
    /\ k_pc = "resolving"
    /\ \E token \in (IF k_urls = <<>>
                     THEN {get_new_token(r, 1) : r \in ClientTokenReplies}
                     ELSE {TokenOk(1)}) :
         LET resolved == service_urls(token, reply)
             all == Append(k_urls, resolved)
         IN
         IF resolved.kind = "Err"
         THEN k_pc' = "panicked" /\ UNCHANGED k_urls
         ELSE /\ k_urls' = all
              /\ k_pc' = IF Len(all) < Len(ConstructServices) THEN "resolving"
                         ELSE IF \A i \in 1..Len(all) : first_url_unwraps(all[i])
                              THEN "built" ELSE "panicked"
    /\ UNCHANGED <<u_resolved, u_fetch, u_mqtt, u_host, u_asked>>
    /\ UNCHANGED <<varsTrait, varsClient, varsDiscovery, varsRequest, varsSparkplug,
                   varsService, varsPing, varsConfigDb, varsIdempotent>>

\* A resolve result is at hand and nothing has used it; ServiceClient::from
\* has been called and has resolved nothing yet.
UseFrom(resolved) ==
    /\ u_resolved = resolved
    /\ u_fetch = NotUsed
    /\ u_mqtt = NotUsed
    /\ u_host = NotUsed
    /\ u_asked = {}
    /\ k_pc = "resolving"
    /\ k_urls = <<>>

NextUse ==
    \/ UseFetch
    \/ \E connects \in ConnectOutcomes : UseMqtt(connects)
    \/ \E connects \in ConnectOutcomes : UseMqttHost(connects)
    \/ \E reply \in ConstructReplies : ConstructResolve(reply)

(***************************************************************************)
(* Request descriptors: Service::fetch and try_fetch (service_trait.rs),   *)
(* ServiceClient::fetch and utils::check_correct_headers (service.rs).     *)
(***************************************************************************)
\* HeaderValue::from_str("application/json")
Json == "application/json"

\* The headers a caller may supply: any of Accept, Content-Type and a header
\* of its own, the first two with either of two values.
CallerHeaders ==
    {h \in UNION {[names -> {Json, "text/plain"}] :
                    names \in SUBSET {"accept", "content-type", "x-trace"}} :
        "x-trace" \in DOMAIN h => h["x-trace"] = "text/plain"}

\* The url of a descriptor: a path that begins with '/', or one that does not.
Paths == {<<"/", "a">>, <<"/", "b">>, <<"a">>}

\* ServiceOpts / FetchOpts: url, headers, body (is_some).
Descriptors == [url : Paths, headers : CallerHeaders, body : BOOLEAN]

\* A check_correct_headers that writes Accept and Content-Type whatever the
\* caller supplied.
check_overwrites_headers(headers, body) ==
    LET with_accept == Insert(headers, "accept", Json) IN
    IF body THEN Insert(with_accept, "content-type", Json) ELSE with_accept

\* utils::check_correct_headers, and the same lines of try_fetch (369-378):
\* entry(ACCEPT).or_insert(json); with a body, entry(CONTENT_TYPE).or_insert(json).
check_correct_headers(headers, body) ==
    LET with_accept == IF "accept" \in DOMAIN headers THEN headers
                       ELSE Insert(headers, "accept", Json)
    IN
    IF body /\ "content-type" \notin DOMAIN with_accept
    THEN Insert(with_accept, "content-type", Json) ELSE with_accept

\* add_auth_headers / RequestBuilder::bearer_auth: the Authorization header.
add_auth_headers(headers, scheme) ==
    IF "authorization" \in DOMAIN headers THEN headers
    ELSE Insert(headers, "authorization", scheme)

\* fetch_token, line 515: format!("{}/{}", service_url, "token").
token_url(service_url) == service_url \o <<"/", "token">>

\* What a fetch did with the descriptor `opts` it was given: an early error,
\* or a request with its URL, its headers, the key of its token and the URL
\* the token is acquired from.
EarlyError(by, opts, message) ==
    [kind |-> "Err", by |-> by, opts |-> opts, message |-> message, url |-> <<>>,
     key |-> <<>>, token_url |-> <<>>, headers |-> EmptyMap]
Request(by, opts, url, key, token_from, headers) ==
    [kind |-> "request", by |-> by, opts |-> opts, message |-> "", url |-> url,
     key |-> key, token_url |-> token_from, headers |-> headers]

\* Service::fetch (lines 30-93) and the request try_fetch builds (325-392):
\* with an empty directory_url it returns an error; with a target service it
\* writes the amended URL into the descriptor; the token is looked up under
\* opts.url and acquired from opts.url/token.
ServiceFetch(directory_url_empty) ==
    /\ Len(r_sent) < MaxSends
    /\ IF directory_url_empty
       THEN /\ r_sent' = Append(r_sent, EarlyError("trait", r_opts, "Directory url is empty"))
            /\ UNCHANGED r_opts
       ELSE LET url == IF r_target
                       THEN amended_url(unwrap_or_default(r_resolved), r_opts.url)
                       ELSE r_opts.url
                headers == add_auth_headers(
                               check_correct_headers(r_opts.headers, r_opts.body), "Bearer")
            IN
            /\ r_opts' = [r_opts EXCEPT !.url = url]
            /\ r_sent' = Append(r_sent,
                                Request("trait", r_opts, url, url, token_url(url), headers))
    /\ UNCHANGED <<r_orig, r_target, r_resolved>>
    /\ UNCHANGED <<varsTrait, varsClient, varsDiscovery, varsUse, varsSparkplug,
                   varsService, varsPing, varsConfigDb, varsIdempotent>>

\* ServiceClient::fetch (service.rs lines 168-234): the descriptor is taken by
\* value and its url is used as it is; the headers are those of
\* check_correct_headers with the bearer token; the token is looked up under
\* fetch_opts.service and acquired from the URL of that service.
ClientFetch ==
    /\ Len(r_sent) < MaxSends
    /\ r_sent' = Append(r_sent,
                        Request("client", r_opts, r_opts.url, <<"service">>,
                                token_url(UrlString(StaticUrl)),
                                add_auth_headers(
                                    check_correct_headers(r_opts.headers, r_opts.body),
                                    "Bearer")))
    /\ UNCHANGED <<r_opts, r_orig, r_target, r_resolved>>
    /\ UNCHANGED <<varsTrait, varsClient, varsDiscovery, varsUse, varsSparkplug,
                   varsService, varsPing, varsConfigDb, varsIdempotent>>

\* The caller makes a descriptor for another path of the same service.
NewDescriptor(path) ==
    /\ Len(r_sent) < MaxSends
    /\ path # r_orig.url
    /\ r_opts' = [r_orig EXCEPT !.url = path]
    /\ r_orig' = [r_orig EXCEPT !.url = path]
    /\ UNCHANGED <<r_target, r_resolved, r_sent>>
    /\ UNCHANGED <<varsTrait, varsClient, varsDiscovery, varsUse, varsSparkplug,
                   varsService, varsPing, varsConfigDb, varsIdempotent>>

\* A caller holds the descriptor opts for a service that resolves to `resolved`.
RequestFrom(opts, target, resolved) ==
    /\ r_opts = opts
    /\ r_orig = opts
    /\ r_target = target
    /\ r_resolved = resolved
    /\ r_sent = <<>>

NextRequest ==
    \/ \E directory_url_empty \in BOOLEAN : ServiceFetch(directory_url_empty)
    \/ ClientFetch
    \/ \E path \in Paths : NewDescriptor(path)

(***************************************************************************)
(* sparkplug/util.rs: addresses and topics.                                *)
(***************************************************************************)
\* A string is the sequence of its pieces; '/' is a piece of its own and no
\* other piece holds a '/'.
SP_PREFIX == <<"spBv1.0">>

\* The segments the strings parsed are made of: the empty segment, a name,
\* the wildcard, the prefix, a message kind.
Segments == {<<>>, <<"g">>, <<"+">>, SP_PREFIX, <<"NDATA">>}

\* The string whose segments are `segments`.
RECURSIVE join(_)
join(segments) ==
    IF Len(segments) = 1 THEN segments[1]
    ELSE segments[1] \o <<"/">> \o join(Tail(segments))

Strings == {join(segments) : segments \in UNION {[1..n -> Segments] : n \in 1..MaxSegments}}

\* s.split('/').collect(): the pieces between the '/', in order; a string
\* with no '/' is one segment, the empty string included.
RECURSIVE split(_)
split(s) ==
    IF \A i \in DOMAIN s : s[i] # "/" THEN <<s>>
    ELSE LET k == CHOOSE i \in DOMAIN s : s[i] = "/" /\ \A j \in 1..(i - 1) : s[j] # "/"
         IN <<SubSeq(s, 1, k - 1)>> \o split(SubSeq(s, k + 1, Len(s)))

\* enum AddressType.
Device(name) == [kind |-> "Device", name |-> name]
Node == [kind |-> "Node", name |-> <<>>]

\* struct Address.
Address(group, node, address_type) ==
    [group |-> group, node |-> node, address_type |-> address_type]

\* Result<Address, SparkplugError>; an Err holds no address (the field is a
\* filler that nothing reads).
AddressOk(address) == [kind |-> "Ok", address |-> address, message |-> ""]
AddressErr(message) ==
    [kind |-> "Err", address |-> Address(<<>>, <<>>, Node), message |-> message]
NoAddress == [kind |-> "none", address |-> Address(<<>>, <<>>, Node), message |-> ""]

\* impl FromStr for Address: the match on config_vec.get(0), get(1), get(2).
Address_from_str(s) ==
    LET config_vec == split(s) IN
    IF Len(config_vec) >= 3
    THEN AddressOk(Address(config_vec[1], config_vec[2], Device(config_vec[3])))
    ELSE IF Len(config_vec) = 2
         THEN AddressOk(Address(config_vec[1], config_vec[2], Node))
         ELSE AddressErr("Couldn't parse address.")

\* An Address Display that leaves the device name out.
Address_fmt_node(address) == address.group \o <<"/">> \o address.node

\* impl Display for Address: "{}/{}{}" of group, node and "/<device>" or "".
Address_fmt(address) ==
    address.group \o <<"/">> \o address.node
    \o (IF address.address_type.kind = "Device"
        THEN <<"/">> \o address.address_type.name ELSE <<>>)

\* A wild that takes "+" on either side.
wild_either(p, a) == p = a \/ p = <<"+">> \/ a = <<"+">>

\* Address::matches, fn wild.
wild(p, a) == p = a \/ p = <<"+">>

\* A wild_address_type with no wildcard.
wild_address_type_equal(p, a) == p = a

\* Address::matches, fn wild_address_type.
wild_address_type(p, a) == p = a \/ (p = Device(<<"+">>) /\ a # Node)

\* Address::matches.
matches(self, other) ==
    /\ wild(self.group, other.group)
    /\ wild(self.node, other.node)
    /\ wild_address_type(self.address_type, other.address_type)

\* The strings TopicType::from_str knows.
TopicTypeNames ==
    {"NBIRTH", "NCMD", "NDATA", "NDEATH", "DBIRTH", "DCMD", "DDATA", "DDEATH"}

\* impl FromStr for TopicType: "+" is TopicType::Any.
TopicType_from_str(s) ==
    IF s = <<"+">> THEN [kind |-> "Ok", topic_type |-> "Any", message |-> ""]
    ELSE IF Len(s) = 1 /\ s[1] \in TopicTypeNames
         THEN [kind |-> "Ok", topic_type |-> s[1], message |-> ""]
         ELSE [kind |-> "Err", topic_type |-> "Any",
               message |-> "Couldn't determine topic type"]

\* Result<Topic, SparkplugError>.
TopicOk(prefix, address, topic_type) ==
    [kind |-> "Ok", prefix |-> prefix, address |-> address, topic_type |-> topic_type,
     message |-> ""]
TopicErr(message) ==
    [kind |-> "Err", prefix |-> <<>>, address |-> Address(<<>>, <<>>, Node),
     topic_type |-> "Any", message |-> message]
NoTopic ==
    [kind |-> "none", prefix |-> <<>>, address |-> Address(<<>>, <<>>, Node),
     topic_type |-> "Any", message |-> ""]

\* A Topic::from_str with no check of the number of segments.
topic_length_unchecked(config_vec) == TRUE

\* impl FromStr for Topic, line 138.
topic_length_ok(config_vec) == Len(config_vec) = 4 \/ Len(config_vec) = 5

\* impl FromStr for Topic.
Topic_from_str(s) ==
    LET config_vec == split(s) IN
    IF ~topic_length_ok(config_vec) THEN TopicErr("Incorrect topic length")
    ELSE IF config_vec[1] # SP_PREFIX THEN TopicErr("Incorrect Sparkplug prefix")
    ELSE IF Len(config_vec) < 4 THEN TopicErr("Couldn't get topic components")
    ELSE LET addr == Address(config_vec[2], config_vec[4],
                             IF Len(config_vec) >= 5 THEN Device(config_vec[5]) ELSE Node)
             topic_type == TopicType_from_str(config_vec[3])
         IN IF topic_type.kind = "Err" THEN TopicErr(topic_type.message)
            ELSE TopicOk(SP_PREFIX, addr, topic_type.topic_type)

\* A TopicType Display that writes every kind as "+".
TopicType_fmt_any(topic_type) == <<"+">>

\* impl Display for TopicType.
TopicType_fmt(topic_type) == IF topic_type = "Any" THEN <<"+">> ELSE <<topic_type>>

\* impl Display for Topic: "{}/{}/{}/{}{}" of prefix, group, topic_type, node
\* and "/<device>" or "".
Topic_fmt(topic) ==
    topic.prefix \o <<"/">> \o topic.address.group \o <<"/">>
    \o TopicType_fmt(topic.topic_type) \o <<"/">> \o topic.address.node
    \o (IF topic.address.address_type.kind = "Device"
        THEN <<"/">> \o topic.address.address_type.name ELSE <<>>)

\* The addresses matches is applied to.
Addresses ==
    {Address(group, node, address_type) :
        group \in Segments, node \in Segments,
        address_type \in {Node} \cup {Device(name) : name \in Segments}}

\* s.parse::<Address>().
ParseAddress ==
    /\ s_pc = "input"
    /\ s_pc' = "address"
    /\ s_address' = Address_from_str(s_input)
    /\ UNCHANGED <<s_input, s_formatted, s_reparsed, s_topic, s_topic_formatted,
                   m_pattern, m_candidate, m_pc, m_matches>>
    /\ UNCHANGED <<varsTrait, varsClient, varsDiscovery, varsUse, varsRequest,
                   varsService, varsPing, varsConfigDb, varsIdempotent>>

\* address.to_string() of the address parsed.
FormatAddress ==
    /\ s_pc = "address"
    /\ s_address.kind = "Ok"
    /\ s_pc' = "formatted"
    /\ s_formatted' = Address_fmt(s_address.address)
    /\ UNCHANGED <<s_input, s_address, s_reparsed, s_topic, s_topic_formatted,
                   m_pattern, m_candidate, m_pc, m_matches>>
    /\ UNCHANGED <<varsTrait, varsClient, varsDiscovery, varsUse, varsRequest,
                   varsService, varsPing, varsConfigDb, varsIdempotent>>

\* The string written is parsed again.
ReparseAddress ==
    /\ s_pc = "formatted"
    /\ s_pc' = "reparsed"
    /\ s_reparsed' = Address_from_str(s_formatted)
    /\ UNCHANGED <<s_input, s_address, s_formatted, s_topic, s_topic_formatted,
                   m_pattern, m_candidate, m_pc, m_matches>>
    /\ UNCHANGED <<varsTrait, varsClient, varsDiscovery, varsUse, varsRequest,
                   varsService, varsPing, varsConfigDb, varsIdempotent>>

\* s.parse::<Topic>().
ParseTopic ==
    /\ s_pc = "input"
    /\ s_pc' = "topic"
    /\ s_topic' = Topic_from_str(s_input)
    /\ UNCHANGED <<s_input, s_address, s_formatted, s_reparsed, s_topic_formatted,
                   m_pattern, m_candidate, m_pc, m_matches>>
    /\ UNCHANGED <<varsTrait, varsClient, varsDiscovery, varsUse, varsRequest,
                   varsService, varsPing, varsConfigDb, varsIdempotent>>

\* topic.to_string() of the topic parsed.
FormatTopic ==
    /\ s_pc = "topic"
    /\ s_topic.kind = "Ok"
    /\ s_pc' = "topic_formatted"
    /\ s_topic_formatted' = Topic_fmt(s_topic)
    /\ UNCHANGED <<s_input, s_address, s_formatted, s_reparsed, s_topic,
                   m_pattern, m_candidate, m_pc, m_matches>>
    /\ UNCHANGED <<varsTrait, varsClient, varsDiscovery, varsUse, varsRequest,
                   varsService, varsPing, varsConfigDb, varsIdempotent>>

\* m_pattern.matches(&m_candidate).
Matches ==
    /\ m_pc = "ready"
    /\ m_pc' = "done"
    /\ m_matches' = matches(m_pattern, m_candidate)
    /\ UNCHANGED <<s_input, s_pc, s_address, s_formatted, s_reparsed, s_topic,
                   s_topic_formatted, m_pattern, m_candidate>>
    /\ UNCHANGED <<varsTrait, varsClient, varsDiscovery, varsUse, varsRequest,
                   varsService, varsPing, varsConfigDb, varsIdempotent>>

\* A string to parse, and a pattern and a candidate to match.
SparkplugFrom(input, pattern, candidate) ==
    /\ s_input = input
    /\ s_pc = "input"
    /\ s_address = NoAddress
    /\ s_formatted = <<>>
    /\ s_reparsed = NoAddress
    /\ s_topic = NoTopic
    /\ s_topic_formatted = <<>>
    /\ m_pattern = pattern
    /\ m_candidate = candidate
    /\ m_pc = "ready"
    /\ m_matches = FALSE

NextSparkplug ==
    \/ ParseAddress
    \/ FormatAddress
    \/ ReparseAddress
    \/ ParseTopic
    \/ FormatTopic

NextMatch == Matches

(***************************************************************************)
(* uuids.rs, ServiceType (service.rs) and ServiceType::new                 *)
(* (service_trait.rs): the identifiers of the services.                    *)
(***************************************************************************)
\* uuids::service.
DIRECTORY == "af4a1d66-e6f7-43c4-8a67-0fa3be2b1cf9"
CONFIG_DB == "af15f175-78a0-4e05-97c0-2a0bb82b9f3b"
AUTHENTICATION == "cab2642a-f7d9-42e5-8845-8f35affe1fd4"
COMMAND_ESCALATION == "78ea7071-24ac-4916-8351-aa3e549d8ccd"
MQTT == "feb27ba3-bd2c-4916-9269-79a61ebc4a47"
GIT == "7adf4db0-2e7b-4a68-ab9d-376f4c5ce14b"
CLUSTERS == "2706aa43-a826-441e-9cec-cd3d4ce623c2"

ServiceUuids == {DIRECTORY, CONFIG_DB, AUTHENTICATION, COMMAND_ESCALATION, MQTT, GIT, CLUSTERS}

\* The identifiers of uuids.rs that are not those of a service.
OtherUuids ==
    {"d319bd87-f42b-4b66-be4f-f82ff48b93f0",
     "04a1c90d-2295-4cbe-b33a-74eded62cbf1",
     "18773d6d-a70d-443a-b29a-3f1583195290",
     "00da3c0b-f62b-4761-a689-39ad0c33f864",
     "d25f2afc-1ab8-4d27-b51b-d02314624e3e",
     "b03d4dfe-7e78-4252-8e62-af594cf316c9",
     "ac0d5288-6136-4ced-a372-325fbbcdd70d",
     "8ae784bb-c4b5-4995-9bf6-799b3c7f21ad",
     "b419cbc2-ab0f-4311-bd9e-f0591f7e88cb",
     "83ee28d4-023e-4c2c-ab86-12c24e86372c",
     "265d481f-87a7-4f93-8fc6-53fa64dc11bb",
     "ddb132e4-5cdd-49c8-b9b1-2f35879eab6d",
     "00000000-0000-0000-0000-000000000000",
     "11ad7b32-1d32-4c4a-b0c9-fa049208939a",
     "5855a1cc-46d8-4b16-84f8-ab3916ecb230",
     "cb40bed5-49ad-4443-a7f5-08c75009da8f",
     "64a8bfa9-7772-45c4-9d1a-9e6290690957",
     "8e32801b-f35a-4cbf-a5c3-2af64d3debd7",
     "dbd8a535-52ba-4f6e-b4f8-9b71aefe09d3",
     "5b47881c-b012-4040-945c-eacafca539b2",
     "2dd093e9-1450-44c5-be8c-c0d78e48219b",
     "05688a03-730e-4cda-9932-172e2c62e45c",
     "ba566181-0e8a-405b-b16e-3fb89130fbee",
     "327c4cc8-9c46-4e1e-bb6b-257ace37b0f6",
     "3a41f5ce-fc08-4669-9762-ec9e71061168",
     "be9b6d47-c845-49b2-b9d5-d87b83f11c3b",
     "fbb9c25d-386d-4966-a325-f16471d9f7be",
     "4a339562-cd57-408d-9d1a-6529a383ea4b",
     "6c799ccb-d2ad-4715-a2a7-3c8728d6c0bf",
     "f0b7917b-d475-4888-9d5a-2af96b3c26b6",
     "4db4c39a-f18d-4e83-aeb0-5af2c14ddc2b"}

\* Option<ServiceType> of service_trait.rs: a variant and its uuid field.
SomeService(variant, uuid) == [some |-> TRUE, variant |-> variant, uuid |-> uuid]
NoService == [some |-> FALSE, variant |-> "", uuid |-> ""]
NotCalled == [some |-> FALSE, variant |-> "none", uuid |-> ""]

\* ServiceType::new (service_trait.rs).
ServiceType_new(service_id) ==
    IF service_id = DIRECTORY THEN SomeService("Directory", DIRECTORY)
    ELSE IF service_id = CONFIG_DB THEN SomeService("ConfigDb", CONFIG_DB)
    ELSE IF service_id = AUTHENTICATION THEN SomeService("Authentication", AUTHENTICATION)
    ELSE IF service_id = COMMAND_ESCALATION
         THEN SomeService("CommandEscalation", COMMAND_ESCALATION)
    ELSE IF service_id = MQTT THEN SomeService("MQTT", MQTT)
    ELSE IF service_id = GIT THEN SomeService("Git", GIT)
    ELSE IF service_id = CLUSTERS THEN SomeService("Cluster", CLUSTERS)
    ELSE NoService

\* A to_uuid that gives every service the identifier of the Directory.
to_uuid_directory(self) == DIRECTORY

\* ServiceType::to_uuid (service.rs).
to_uuid(self) ==
    CASE self = "Directory" -> DIRECTORY
      [] self = "ConfigDb" -> CONFIG_DB
      [] self = "Authentication" -> AUTHENTICATION
      [] self = "MQTT" -> MQTT
      [] self = "CommandEscalation" -> COMMAND_ESCALATION

\* ServiceType::new(y_id).
ServiceTypeNew ==
    /\ y_new = NotCalled
    /\ y_new' = ServiceType_new(y_id)
    /\ UNCHANGED <<y_id, y_variant, y_uuid>>
    /\ UNCHANGED <<varsTrait, varsClient, varsDiscovery, varsUse, varsRequest,
                   varsSparkplug, varsPing, varsConfigDb, varsIdempotent>>

\* y_variant.to_uuid().
ToUuid ==
    /\ y_uuid = ""
    /\ y_uuid' = to_uuid(y_variant)
    /\ UNCHANGED <<y_id, y_new, y_variant>>
    /\ UNCHANGED <<varsTrait, varsClient, varsDiscovery, varsUse, varsRequest,
                   varsSparkplug, varsPing, varsConfigDb, varsIdempotent>>

\* An identifier and a ServiceType, nothing called yet.
ServiceFrom(id, variant) ==
    /\ y_id = id
    /\ y_new = NotCalled
    /\ y_variant = variant
    /\ y_uuid = ""

NextService ==
    \/ ServiceTypeNew
    \/ ToUuid

(***************************************************************************)
(* configdb.rs: ConfigDbInterface search, resolve and create_object.       *)
(***************************************************************************)
CREATED == 201

\* The identifiers a ConfigDb answer may hold, and Uuid::nil().
ObjectUuids == {"obj1", "obj2"}
NilUuid == "nil"

\* The url of FetchOpts in create_object and in search.
ObjectUrl == <<"/", "v1", "/", "object">>
SearchUrl == <<"/", "v1", "/", "app", "/", "app1", "/", "search">>

\* FetchError: message and url; status is the status the message is formatted
\* with (0 when the message has none).
FetchError(message, status, url) == [message |-> message, status |-> status, url |-> url]
NoFetchError == FetchError("", 0, <<>>)

\* The lists of identifiers a search may answer.
RECURSIVE UuidLists(_)
UuidLists(n) ==
    IF n = 0 THEN {<<>>}
    ELSE UuidLists(n - 1)
         \cup {Append(l, u) : l \in {m \in UuidLists(n - 1) : Len(m) = n - 1},
                              u \in ObjectUuids}

\* The content of a response: what serde_json::from_str makes of it.
Undecodable == [decodable |-> FALSE, uuids |-> <<>>]
SearchContents == [decodable : {TRUE}, uuids : UuidLists(MaxFound)] \cup {Undecodable}
RegistrationContents ==
    [decodable : {TRUE}, uuids : {<<u>> : u \in ObjectUuids}] \cup {Undecodable}

\* What self.fetch may return: a response with status and content, or an error.
ConfigDbStatuses == Statuses \cup {CREATED}
FetchReplies(contents) ==
    [kind : {"Ok"}, status : ConfigDbStatuses, content : contents, error : {NoFetchError}]
    \cup [kind : {"Err"}, status : {0}, content : {Undecodable},
          error : {FetchError("Couldn't make request", 0, <<"cfg">>),
                   FetchError("Directory url is empty", 0, <<>>)}]

\* Result<Option<..>, FetchError>: Ok(Some(value)), Ok(None), Err(error). The
\* value is a list; one identifier is the list of that identifier.
Found(value) == [kind |-> "Ok", some |-> TRUE, value |-> value, error |-> NoFetchError]
NotFound == [kind |-> "Ok", some |-> FALSE, value |-> <<>>, error |-> NoFetchError]
Failed(error) == [kind |-> "Err", some |-> FALSE, value |-> <<>>, error |-> error]
NoCall == [kind |-> "none", some |-> FALSE, value |-> <<>>, error |-> NoFetchError]

\* search, lines 322-343: the error of fetch leaves by `?`; 200 with a list of
\* identifiers is Some(list); 404 is None; anything else is an error.
search(reply) ==
    IF reply.kind = "Err" THEN Failed(reply.error)
    ELSE IF reply.status = OK
    THEN IF reply.content.decodable THEN Found(reply.content.uuids)
         ELSE Failed(FetchError("Failed to parse a UUID from response.", 0, SearchUrl))
    ELSE IF reply.status = NOT_FOUND THEN NotFound
    ELSE Failed(FetchError("ConfigDB search failed.", 0, SearchUrl))

\* A resolve that takes the first identifier of any list that has one.
resolve_first(searched) ==
    IF searched.kind = "Err" THEN searched
    ELSE IF searched.some /\ Len(searched.value) >= 1 THEN Found(<<searched.value[1]>>)
    ELSE NotFound

\* resolve, lines 355-373: the error of search leaves by `?`; the slice patterns
\* [uuid] and [_, _, ..] select one and two or more; None and [] are Ok(None).
resolve(searched) ==
    IF searched.kind = "Err" THEN searched
    ELSE IF searched.some /\ Len(searched.value) = 1 THEN Found(<<searched.value[1]>>)
    ELSE IF searched.some /\ Len(searched.value) >= 2
    THEN Failed(FetchError("Returned more than once result", 0, SearchUrl))
    ELSE NotFound

\* An exclusive create that is never taken to have failed.
exclusive_create_ignored(res, is_exclusive) == FALSE

\* create_object, line 225: the guard of the first arm.
exclusive_create_failed(res, is_exclusive) == res.status = OK /\ is_exclusive

\* create_object, lines 202-258. The ObjectRegistration of two identifiers
\* always serialises, so the else branch of line 253 is not taken.
create_object(maybe_obj_uuid, is_exclusive, reply) ==
    LET obj_uuid == IF maybe_obj_uuid = <<>> THEN NilUuid ELSE maybe_obj_uuid[1] IN
    IF reply.kind = "Err" THEN Failed(reply.error)
    ELSE IF exclusive_create_failed(reply, is_exclusive)
    THEN Failed(FetchError("Exclusive create failed", 0, ObjectUrl))
    ELSE IF reply.status = OK \/ reply.status = CREATED
    THEN IF reply.content.decodable THEN Found(<<reply.content.uuids[1]>>)
         ELSE Failed(FetchError("Couldn't parse response into an object registration.",
                                0, ObjectUrl))
    ELSE IF maybe_obj_uuid # <<>>
    THEN Failed(FetchError("Creating failed", reply.status, ObjectUrl))
    ELSE Failed(FetchError("Creating new failed", reply.status, ObjectUrl))

\* resolve called; reply is what self.fetch returns to search.
Resolve(reply) ==
    /\ g_pc = "ready"
    /\ g_pc' = "resolved"
    /\ g_reply' = reply
    /\ g_result' = resolve(search(reply))
    /\ UNCHANGED <<g_obj, g_exclusive>>
    /\ UNCHANGED <<varsTrait, varsClient, varsDiscovery, varsUse, varsRequest,
                   varsSparkplug, varsService, varsPing, varsIdempotent>>

\* create_object called; reply is what self.fetch returns to it.
CreateObject(reply) ==
    /\ g_pc = "ready"
    /\ g_pc' = "created"
    /\ g_reply' = reply
    /\ g_result' = create_object(g_obj, g_exclusive, reply)
    /\ UNCHANGED <<g_obj, g_exclusive>>
    /\ UNCHANGED <<varsTrait, varsClient, varsDiscovery, varsUse, varsRequest,
                   varsSparkplug, varsService, varsPing, varsIdempotent>>

\* A ConfigDbInterface about to be called with these arguments.
ConfigDbFrom(maybe_obj_uuid, is_exclusive) ==
    /\ g_obj = maybe_obj_uuid
    /\ g_exclusive = is_exclusive
    /\ g_pc = "ready"
    /\ g_reply = [kind |-> "none", status |-> 0, content |-> Undecodable,
                  error |-> NoFetchError]
    /\ g_result = NoCall

NextConfigDb ==
    \/ \E reply \in FetchReplies(SearchContents) : Resolve(reply)
    \/ \E reply \in FetchReplies(RegistrationContents) : CreateObject(reply)

(***************************************************************************)
(* service.rs and service_trait.rs: fetch_util::is_idempotent.             *)
(***************************************************************************)
\* HttpRequestMethod.
Methods == {"GET", "POST", "PUT", "PATCH", "DELETE", "HEAD"}

\* Option<String>: None, Some("") and Some of a text.
Bodies == {"None", "SomeEmpty", "SomeText"}

\* The fields of FetchOpts / ServiceOpts that is_idempotent reads.
IdempotentOpts == [method : Methods, headers : CallerHeaders, body : Bodies]

\* Option::is_some.
is_some(body) == body # "None"

\* is_idempotent: not matches!((is GET, headers.is_empty(), body.is_some()),
\* (false, _, _) | (_, false, _) | (_, _, false)). The two files hold the same
\* function.
is_idempotent(opts) ==
    LET tuple == <<opts.method = "GET", opts.headers = EmptyMap, is_some(opts.body)>> IN
    ~(tuple[1] = FALSE \/ tuple[2] = FALSE \/ tuple[3] = FALSE)

IsIdempotent ==
    /\ i_pc = "ready"
    /\ i_pc' = "done"
    /\ i_result' = is_idempotent(i_opts)
    /\ UNCHANGED i_opts
    /\ UNCHANGED <<varsTrait, varsClient, varsDiscovery, varsUse, varsRequest,
                   varsSparkplug, varsService, varsPing, varsConfigDb>>

\* is_idempotent about to be called on opts.
IdempotentFrom(opts) ==
    /\ i_opts = opts
    /\ i_pc = "ready"
    /\ i_result = FALSE

NextIdempotent == IsIdempotent

(***************************************************************************)
(* Specifications.                                                         *)
(***************************************************************************)
\* No string to parse; one address matched against itself.
NoSparkplug ==
    SparkplugFrom(<<>>, Address(<<"g">>, <<"g">>, Node), Address(<<"g">>, <<"g">>, Node))

\* No identifier looked up yet.
ServiceIdle == ServiceFrom(DIRECTORY, "Directory")

\* No ConfigDb call and no descriptor under test.
NoConfigDb == ConfigDbFrom(<<>>, FALSE)
NoIdempotent == IdempotentFrom([method |-> "GET", headers |-> EmptyMap, body |-> "None"])

\* The client as constructed with no service URL but the Directory's.
NoRequest == RequestFrom([url |-> PingPath, headers |-> EmptyMap, body |-> FALSE], FALSE, UrlsNone)

Init ==
    /\ InitTrait /\ NoPing /\ NoConfigDb /\ NoIdempotent
    /\ InitClient /\ DiscoveryFrom({"Directory"}) /\ UseFrom(UrlsNone)
    /\ NoRequest /\ NoSparkplug /\ ServiceIdle

\* The client as constructed with any choice of service URLs.
InitDiscovery ==
    /\ InitTrait /\ NoPing /\ NoConfigDb /\ NoIdempotent
    /\ InitClient /\ UseFrom(UrlsNone) /\ NoRequest /\ NoSparkplug /\ ServiceIdle
    /\ \E configured \in SUBSET Services : DiscoveryFrom(configured)

\* A ServiceClient under construction, and any result of a resolve.
InitUse ==
    /\ InitTrait /\ NoPing /\ NoConfigDb /\ NoIdempotent
    /\ InitClient /\ DiscoveryFrom({"Directory"}) /\ NoRequest /\ NoSparkplug /\ ServiceIdle
    /\ \E resolved \in ResolveResults : UseFrom(resolved)

\* A caller with any descriptor, for a service that resolves to any result.
InitRequest ==
    /\ InitTrait /\ NoPing /\ NoConfigDb /\ NoIdempotent
    /\ InitClient /\ DiscoveryFrom({"Directory"}) /\ UseFrom(UrlsNone)
    /\ NoSparkplug /\ ServiceIdle
    /\ \E opts \in Descriptors, target \in BOOLEAN, resolved \in ResolveResults :
          RequestFrom(opts, target, resolved)

\* Any string given to the parsers.
InitSparkplug ==
    /\ InitTrait /\ NoPing /\ NoConfigDb /\ NoIdempotent
    /\ InitClient /\ DiscoveryFrom({"Directory"}) /\ UseFrom(UrlsNone)
    /\ NoRequest /\ ServiceIdle
    /\ \E input \in Strings :
          SparkplugFrom(input, Address(<<"g">>, <<"g">>, Node), Address(<<"g">>, <<"g">>, Node))

\* Any pattern matched against any candidate.
InitMatch ==
    /\ InitTrait /\ NoPing /\ NoConfigDb /\ NoIdempotent
    /\ InitClient /\ DiscoveryFrom({"Directory"}) /\ UseFrom(UrlsNone)
    /\ NoRequest /\ ServiceIdle
    /\ \E pattern \in Addresses, candidate \in Addresses :
          SparkplugFrom(<<>>, pattern, candidate)

\* Any identifier of uuids.rs given to ServiceType::new, any ServiceType.
InitService ==
    /\ InitTrait /\ NoPing /\ NoConfigDb /\ NoIdempotent
    /\ InitClient /\ DiscoveryFrom({"Directory"}) /\ UseFrom(UrlsNone)
    /\ NoRequest /\ NoSparkplug
    /\ \E id \in ServiceUuids \cup OtherUuids, variant \in Services :
          ServiceFrom(id, variant)

\* Any arguments of create_object.
InitConfigDb ==
    /\ InitTrait /\ NoPing /\ NoIdempotent
    /\ InitClient /\ DiscoveryFrom({"Directory"}) /\ UseFrom(UrlsNone)
    /\ NoRequest /\ NoSparkplug /\ ServiceIdle
    /\ \E maybe_obj_uuid \in {<<>>} \cup {<<u>> : u \in ObjectUuids},
          is_exclusive \in BOOLEAN :
          ConfigDbFrom(maybe_obj_uuid, is_exclusive)

\* Any descriptor given to is_idempotent.
InitIdempotent ==
    /\ InitTrait /\ NoPing /\ NoConfigDb
    /\ InitClient /\ DiscoveryFrom({"Directory"}) /\ UseFrom(UrlsNone)
    /\ NoRequest /\ NoSparkplug /\ ServiceIdle
    /\ \E opts \in IdempotentOpts : IdempotentFrom(opts)

SpecTrait == Init /\ [][NextTrait]_vars

SpecClient == Init /\ [][NextClient]_vars

SpecDiscovery == InitDiscovery /\ [][NextDiscovery]_vars

SpecUse == InitUse /\ [][NextUse]_vars

SpecRequest == InitRequest /\ [][NextRequest]_vars

SpecSparkplug == InitSparkplug /\ [][NextSparkplug]_vars

SpecMatch == InitMatch /\ [][NextMatch]_vars

SpecService == InitService /\ [][NextService]_vars

SpecConfigDb == InitConfigDb /\ [][NextConfigDb]_vars

SpecIdempotent == InitIdempotent /\ [][NextIdempotent]_vars

(***************************************************************************)
(* Claims on the service_trait.rs pipeline (SpecTrait).                    *)
(***************************************************************************)
\* The first response of the running fetch was retried.
do_fetch_retried == t_attempt = 2

\* C3: a fetch whose first response is 401 and whose retry response is 401
\* too has made exactly two token acquisitions and reports that one 401.
C3_RetryOnceTwoAcquisitions ==
    (/\ t_pc = "done"
     /\ Len(t_http) = 2
     /\ t_http[1].status = UNAUTHORIZED
     /\ t_http[2].status = UNAUTHORIZED)
    => (t_acqs = 2 /\ t_result = OkResp(UNAUTHORIZED))

\* C4: the retry that follows a 401 carries a token other than the rejected
\* one, the rejected token having been removed from the cache.
C4_RetryCarriesFreshToken ==
    (Len(t_http) = 2 /\ t_http[1].status = UNAUTHORIZED)
    => t_http[2].token # t_http[1].token

\* C5: a fetch executes the HTTP call at most twice, a second time only after
\* a first 401; any other first outcome is returned unchanged, with no second
\* attempt.
C5_AtMostOneRetry ==
    /\ Len(t_http) <= 2
    /\ Len(t_http) = 2 => t_http[1].status = UNAUTHORIZED
    /\ (t_pc = "done" /\ t_first # OkResp(UNAUTHORIZED))
       => (t_result = t_first /\ ~do_fetch_retried /\ Len(t_http) <= 1)

\* C5 witness: a first 401 was retried and the retry answered 200.
C5_Witness ==
    /\ t_pc = "done"
    /\ Len(t_http) = 2
    /\ t_first = OkResp(UNAUTHORIZED)
    /\ t_result = OkResp(OK)

\* C6: after a failed acquisition for a URL, the next getToken for that URL
\* (no token being stored for it) starts a new acquisition of its own.
C6_FailedAcquisitionStartsAnew ==
    [][(/\ t_pc = "idle"
        /\ t_pc' # "idle"
        /\ t_url' \in t_failed
        /\ t_url' \notin DOMAIN url_tokens)
       => (t_pc' = "await_token" /\ ~t_attached' /\ t_acqs' = 1)]_vars

\* C8: a completed acquisition leaves no handle in in_flight_tokens, so no
\* later caller can attach to a completed handle.
C8_CompletedHandleRemoved ==
    \A k \in DOMAIN in_flight_tokens : in_flight_tokens[k] # "completed"

\* C18: every failure of a fetch is returned as a FetchError with a message
\* (and the URL it is about); no failure panics.
C18_FailuresAreNamedErrors ==
    /\ t_pc # "panicked"
    /\ (t_pc = "done" /\ t_result.kind = "Err") => t_result.message # ""

\* The answer get_new_token maps to the error of a status.
Refused(status) == [net |-> "ok", status |-> status, body |-> "garbage"]

\* C20: a token request answered 401, 404 or 500 fails with the message of
\* that status, each different from the others, any other status with a
\* message that holds the status; the caller of fetch receives that error.
C20_TokenErrorReachesCaller ==
    /\ \A s1, s2 \in Statuses \ {OK} :
        s1 # s2 => get_new_token(Refused(s1), 1).message # get_new_token(Refused(s2), 1).message
    /\ (t_pc = "done" /\ t_result.kind = "Err" /\ t_auth \in Statuses \ {OK})
        => t_result.message = get_new_token(Refused(t_auth), 1).message

(***************************************************************************)
(* Claims on ServiceClient and its collaborators (SpecClient).             *)
(***************************************************************************)

\* The lookups of ServiceClient::get_service_token.
IsLookup(c) == c_op[c] \in {"fetch", "ping"}

\* C1: callers that look a key up while it is absent, their lookups
\* overlapping, all get the same outcome (one token, or one error), and the
\* Authentication endpoint serves one acquisition for all of them.
C1_ConcurrentLookupsOneAcquisition ==
    \A c, d \in Callers :
        (/\ c # d /\ d \in c_conc[c]
         /\ IsLookup(c) /\ IsLookup(d)
         /\ c_absent[c] /\ c_absent[d]
         /\ c_outcome[c] # NoOutcome /\ c_outcome[d] # NoOutcome)
        => (c_outcome[c] = c_outcome[d] /\ ~(c_acquired[c] /\ c_acquired[d]))

\* The callers of fetch, ping and re_auth_service that have a request to the
\* Authentication endpoint outstanding for `service`.
Acquiring(service) ==
    {c \in Callers : /\ c_op[c] \in {"fetch", "ping", "re_auth"}
                     /\ c_service[c] = service
                     /\ c_pc[c] \in {"acquiring", "reauth_acquiring"}}

\* C2: at every moment, at most one acquisition is outstanding per key,
\* however fetch, ping and re_auth_service interleave.
C2_OneOutstandingAcquisitionPerKey ==
    \A service \in Services : Cardinality(Acquiring(service)) <= 1

\* C7: as long as no response for a key is 401, the fetches through one
\* component for that key cause one token acquisition in total: the first
\* one acquires, the later ones hit the cache.
C7_OneAcquisitionWithoutUnauthorized ==
    \A e \in EntryPoints, service \in Services :
        service \notin rejected => acquired[e][service] <= 1

\* C9: ServiceClient and its collaborators share one token cache: a token
\* acquired through one of them for a key is a cache hit for every other, so
\* no two of them acquire a token for the same key (no 401 in between).
C9_CollaboratorsShareOneCache ==
    \A e1, e2 \in EntryPoints, service \in Services :
        (e1 # e2 /\ service \notin rejected)
        => ~(acquired[e1][service] >= 1 /\ acquired[e2][service] >= 1)

\* Caller c goes from one position of its operation to another.
Moves(c, from, to) == c_pc[c] = from /\ c_pc'[c] = to

Reauthorized(service) ==
    \E c \in Callers :
        /\ c_op[c] = "re_auth" /\ c_service[c] = service
        /\ Moves(c, "reauth_lock", "done")

\* The entry of `service` in token map m is not the same in map n.
Replaced(m, n, service) ==
    service \notin DOMAIN n \/ n[service] # m[service]

\* C23: a cached token is removed or replaced only by the renewal that answers
\* a 401 (re_auth_service for that service); a lookup that finds a token
\* returns it as it is and changes no entry; no other step touches an entry.
C23_ReplacedOnlyAfterUnauthorized ==
    [][/\ \A service \in DOMAIN tokens :
            Replaced(tokens, tokens', service) => Reauthorized(service)
       /\ \A service \in DOMAIN directory_tokens :
            ~Replaced(directory_tokens, directory_tokens', service)
       /\ \A c \in Callers :
            Moves(c, "lock_wait", "http") =>
                /\ c_token'[c] = TokenMap(c_op[c])[c_service[c]]
                /\ tokens' = tokens /\ directory_tokens' = directory_tokens]_vars

\* The token map of operation `op` after the step.
TokenMapAfter(op) == IF UsesDirectoryMap(op) THEN directory_tokens' ELSE tokens'

\* C34: a lookup that acquires a token for a service, from the URL of that
\* service, stores it under the key of that service and leaves every other
\* entry of the map as it was; a lookup through CmdEscInterface after one
\* that acquired a token finds that token and acquires none.
C34_TokenKeyConsistency ==
    [][\A c \in Callers :
          /\ Moves(c, "acquiring", "http") =>
                LET S == token_service_url(c_op[c], c_service[c])
                    before == TokenMap(c_op[c])
                    after == TokenMapAfter(c_op[c])
                IN /\ DOMAIN after = DOMAIN before \cup {S}
                   /\ after[S] = c_token'[c]
                   /\ \A other \in DOMAIN before \ {S} : after[other] = before[other]
          /\ (Moves(c, "lock_wait", "acquiring") /\ c_op[c] = "cmdesc") =>
                acquired["cmdesc"]["CommandEscalation"] = 0]_vars

\* The callers that hold the lock of the token map of `op` while they await
\* the Authentication endpoint for a key other than `service`.
AcquiringOtherKey(op, service) ==
    {c \in TokenLock(op) : c_pc[c] = "acquiring" /\ c_service[c] # service}

\* C35: a lookup never waits for the acquisition of a token for another key:
\* while a caller is at the lock of its token map, no caller holds that lock
\* awaiting the Authentication endpoint for a different key.
C35_LookupsOfOtherKeysProceed ==
    \A d \in Callers :
        c_pc[d] = "lock_wait" => AcquiringOtherKey(c_op[d], c_service[d]) = {}

\* C36: re_auth_service that gets a new token makes it the entry of the
\* service, returns it and changes no other entry; re_auth_service that gets
\* none returns the error and leaves the token map as it was.
C36_ReauthReplacesOrKeeps ==
    [][\A c \in Callers :
          c_op[c] = "re_auth" =>
            /\ Moves(c, "reauth_lock", "done") =>
                  /\ DOMAIN tokens' = DOMAIN tokens \cup {c_service[c]}
                  /\ tokens'[c_service[c]] = c_token[c]
                  /\ c_result'[c] = TokenResult(c_token[c])
                  /\ \A other \in DOMAIN tokens \ {c_service[c]} :
                        tokens'[other] = tokens[other]
                  /\ directory_tokens' = directory_tokens
            /\ Moves(c, "reauth_acquiring", "reauth_lock") =>
                  /\ c_token'[c] = serial' /\ serial' = serial + 1
                  /\ tokens' = tokens /\ directory_tokens' = directory_tokens
            /\ Moves(c, "reauth_acquiring", "done") =>
                  /\ c_result'[c].kind = "Err"
                  /\ tokens' = tokens /\ directory_tokens' = directory_tokens
            /\ c_pc[c] = "reauth_acquiring" =>
                  c_pc'[c] \in {"reauth_acquiring", "reauth_lock", "done"}
            /\ c_pc[c] = "reauth_lock" => c_pc'[c] \in {"reauth_lock", "done"}]_vars

\* re_auth_service has replaced the token a fetch had cached for the service
\* and returned the new one.
C36_Witness ==
    \E c \in Callers :
        /\ c_op[c] = "re_auth" /\ c_pc[c] = "done"
        /\ acquired["client"][c_service[c]] = 1
        /\ c_result[c] = TokenResult(2)
        /\ tokens[c_service[c]] = 2

(***************************************************************************)
(* Claims on the discovery layer (SpecDiscovery).                          *)
(***************************************************************************)

\* C10: once a resolve of a service with no static URL has succeeded, no
\* later resolve of that service queries the Directory again.
C10_NoDirectoryQueryAfterResolve ==
    \A service \in Services : d_later[service] = 0

\* A resolve has just returned.
Resolved == d_last'.op = "resolve" /\ d_ops' # d_ops

\* C11: a resolve of a service with an entry in the URL map returns that
\* entry and asks the Directory nothing; a resolve asks the Directory
\* collaborator exactly when the map has no entry for the service.
C11_StaticUrlsOrDirectory ==
    [][Resolved =>
        IF d_last'.service \in DOMAIN urls
        THEN /\ d_result' = UrlsSome(urls[d_last'.service])
             /\ ~d_last'.asked
             /\ d_queries' = d_queries
             /\ directory_tokens' = directory_tokens
        ELSE d_last'.asked]_vars

C11_Witness ==
    /\ d_last.op = "resolve" /\ ~d_last.asked
    /\ d_last.service \in DOMAIN urls
    /\ d_result = UrlsSome(urls[d_last.service])
    /\ \E other \in Services : d_queries[other] > 0

\* The URL lists of the services other than `service` are as they were.
OthersKept(service) ==
    \A other \in Services \ {service} :
        /\ other \in DOMAIN urls' <=> other \in DOMAIN urls
        /\ other \in DOMAIN urls => urls'[other] = urls[other]

\* C13: set_service_url makes the list of the service [url] and returns the
\* list it had, or nothing; add_service_url appends url to the list, or
\* creates the list [url]; the lists of all other services stay as they are.
C13_SetReplacesAddAppends ==
    [][/\ (d_last'.op = "set" /\ d_ops' # d_ops) =>
            /\ urls'[d_last'.service] = <<NewUrl>>
            /\ d_result' = IF d_last'.service \in DOMAIN urls
                           THEN UrlsSome(urls[d_last'.service]) ELSE UrlsNone
            /\ OthersKept(d_last'.service)
       /\ (d_last'.op = "add" /\ d_ops' # d_ops) =>
            /\ urls'[d_last'.service] =
                   IF d_last'.service \in DOMAIN urls
                   THEN Append(urls[d_last'.service], NewUrl) ELSE <<NewUrl>>
            /\ OthersKept(d_last'.service)]_vars

C13_Witness ==
    /\ d_last.op = "set"
    /\ d_result.some /\ d_result.list = <<StaticUrl, NewUrl>>
    /\ urls[d_last.service] = <<NewUrl>>
    /\ DOMAIN urls # {d_last.service}

\* The url values of the advertisements that have one, in the order received,
\* none ending in '/'.
urls_without_slash(list) ==
    LET with_url == SelectSeq(list, HasUrl)
    IN [i \in 1..Len(with_url) |-> Url(with_url[i].url.name, 0)]

\* C21: for a 200 answer of the Directory that decodes, service_urls returns
\* the url values of the advertisements that have a url, in the order
\* received, and no URL of the returned list ends in '/'.
C21_ServiceUrlsStripped ==
    [][\A reply \in DirectoryReplies :
          (/\ reply.net = "ok" /\ reply.status = OK /\ reply.body = "json"
           /\ d_result'.kind = "Ok"
           /\ \E service \in Services : ResolveRemote(service, reply))
          => d_result' = UrlsSome(urls_without_slash(reply.list))]_vars

(***************************************************************************)
(* Claims on the users of a resolved URL list (SpecUse).                   *)
(***************************************************************************)

\* ServiceClient::from has resolved a service to an empty URL list.
ConstructedOnEmpty ==
    /\ k_pc # "resolving"
    /\ \E i \in 1..Len(k_urls) : k_urls[i] = UrlsSome(<<>>)

\* C12: an empty URL list from the Directory is a successful resolve; a
\* fetch, a client construction or a telemetry connection that needs a URL
\* of that service fails with an error that names the problem, and never
\* panics.
C12_EmptyListFailsClearly ==
    /\ \A reply \in DirectoryReplies :
        (reply.status = OK /\ reply.body = "json" /\ provider_urls(reply.list) = <<>>)
        => service_urls(TokenOk(1), reply) = UrlsSome(<<>>)
    /\ u_resolved = UrlsSome(<<>>) =>
        /\ u_fetch # NotUsed => (u_fetch.kind = "Err" /\ u_fetch.message # "")
        /\ u_mqtt # NotUsed => (u_mqtt.kind = "Err" /\ u_mqtt.message # "")
    /\ ~ConstructedOnEmpty

\* C19: constructing a ServiceClient never panics, whatever the Directory
\* answers.
C19_ConstructionNeverPanics == k_pc # "panicked"

(***************************************************************************)
(* Claims on request descriptors (SpecRequest).                            *)
(***************************************************************************)

\* The requests handed on so far.
Requests == {i \in 1..Len(r_sent) : r_sent[i].kind = "request"}

\* C14: the headers sent have Accept, which is application/json only when the
\* caller supplied none; they have Content-Type application/json only when
\* there is a body and the caller supplied none, and no Content-Type is added
\* without a body; every header of the caller is sent with its value.
C14_HeadersNormalised ==
    \A i \in Requests :
        LET sent == r_sent[i].headers
            given == r_sent[i].opts.headers
            body == r_sent[i].opts.body
        IN
        /\ "accept" \in DOMAIN sent
        /\ "accept" \notin DOMAIN given => sent["accept"] = Json
        /\ "content-type" \notin DOMAIN given =>
              IF body THEN "content-type" \in DOMAIN sent /\ sent["content-type"] = Json
              ELSE "content-type" \notin DOMAIN sent
        /\ \A name \in DOMAIN given : name \in DOMAIN sent /\ sent[name] = given[name]

C14_Witness ==
    /\ Len(r_sent) = 2
    /\ r_sent[1].by = "client" /\ r_sent[2].by = "trait" /\ r_sent[2].kind = "request"
    /\ r_orig.body /\ DOMAIN r_orig.headers = {"accept", "x-trace"}
    /\ r_orig.headers["accept"] = "text/plain"
    /\ r_sent[2].headers["content-type"] = Json

\* C15: fetch leaves the caller's descriptor as it was: its url, headers and
\* body after the call are those before it, so a second fetch with the same
\* descriptor goes to the same URL.
C15_DescriptorUnchanged ==
    /\ r_opts = r_orig
    /\ \A i, j \in Requests :
        (r_sent[i].by = r_sent[j].by /\ r_sent[i].opts.url = r_orig.url
            /\ r_sent[j].opts = r_opts)
        => r_sent[i].url = r_sent[j].url

\* The requests Service::fetch made for a target service that resolved to a
\* base URL with no trailing slash, from a descriptor whose path begins with '/'.
Composed ==
    {i \in Requests :
        /\ r_sent[i].by = "trait" /\ r_target
        /\ unwrap_or_default(r_resolved) # <<>>
        /\ unwrap_or_default(r_resolved)[1].slashes = 0
        /\ r_sent[i].opts.url[1] = "/"}

\* The base URL the target service resolved to.
BaseUrl == UrlString(unwrap_or_default(r_resolved)[1])

\* C16: with base URL B and descriptor path P beginning with '/', the request
\* goes to B followed by P and its token is acquired from B followed by
\* "/token".
C16_UrlIsBaseThenPath ==
    \A i \in Composed :
        /\ r_sent[i].url = BaseUrl \o r_sent[i].opts.url
        /\ r_sent[i].token_url = BaseUrl \o <<"/", "token">>

\* C17: the token of a request is cached under the resolved URL of the
\* service, so the requests to different paths of one service share a key.
C17_KeyIsServiceUrl ==
    /\ \A i \in Composed : r_sent[i].key = BaseUrl
    /\ \A i, j \in Composed : r_sent[i].key = r_sent[j].key

(***************************************************************************)
(* Claims on sparkplug addresses and topics (SpecSparkplug, SpecMatch).    *)
(***************************************************************************)

\* The number of '/'-separated segments of a string.
SegmentCount(s) == Cardinality({i \in DOMAIN s : s[i] = "/"}) + 1

\* C24: Address::from_str accepts a string exactly when it has 2 or 3
\* segments; 2 segments give the Node address group/node, 3 segments the
\* Device address whose device is the third segment, and 1 segment or 4 and
\* more give an error.
C24_AddressSegmentCount ==
    s_address.kind # "none" =>
        LET n == SegmentCount(s_input)
            segment == split(s_input)
        IN
        /\ s_address.kind = "Ok" <=> n \in {2, 3}
        /\ n = 2 => s_address = AddressOk(Address(segment[1], segment[2], Node))
        /\ n = 3 => s_address =
                       AddressOk(Address(segment[1], segment[2], Device(segment[3])))
        /\ n \notin {2, 3} => s_address = AddressErr("Couldn't parse address.")

\* C25: for a string of 2 or 3 segments, parsing what the parsed address is
\* written as gives the parsed address again.
C25_AddressRoundTrip ==
    (s_pc = "reparsed" /\ SegmentCount(s_input) \in {2, 3}) => s_reparsed = s_address

\* A Device address was parsed from three segments, written and parsed again.
C25_Witness ==
    /\ s_pc = "reparsed"
    /\ SegmentCount(s_input) = 3
    /\ s_address = AddressOk(Address(<<"g">>, <<"+">>, Device(<<"g">>)))
    /\ s_reparsed = s_address

\* C26: every string Address::from_str accepts is written back as it was
\* given: group/node for a Node address, group/node/device for a Device one.
C26_FormatInvertsParse ==
    (s_pc \in {"formatted", "reparsed"} /\ s_address.kind = "Ok")
        => s_formatted = s_input

\* C27: an Address that Address::from_str or Topic::from_str returns has a
\* group and a node that are not empty.
C27_GroupAndNodeNotEmpty ==
    /\ s_address.kind = "Ok" =>
            s_address.address.group # <<>> /\ s_address.address.node # <<>>
    /\ s_topic.kind = "Ok" =>
            s_topic.address.group # <<>> /\ s_topic.address.node # <<>>

\* The pattern that is a wildcard in every field.
AnyDevice == Address(<<"+">>, <<"+">>, Device(<<"+">>))

\* C28: the pattern +/+/Device(+) matches every Device address, whatever its
\* group, node and device name, and no Node address.
C28_WildcardLaw ==
    (m_pc = "done" /\ m_pattern = AnyDevice)
        => (m_matches <=> m_candidate.address_type.kind = "Device")

\* The wildcard pattern was matched against a Device address of literal fields.
C28_Witness ==
    /\ m_pc = "done" /\ m_pattern = AnyDevice
    /\ m_candidate = Address(<<"g">>, <<"NDATA">>, Device(<<"g">>))
    /\ m_matches

\* C29: matches is true exactly when group, node and target match: a field
\* matches when the two are equal or the pattern has "+", the target when
\* the two are equal or the pattern is Device("+") and the candidate is a
\* Device. A "+" of the candidate matches no other literal of the pattern.
C29_MatchesFieldwise ==
    m_pc = "done" =>
        /\ m_matches <=>
              /\ m_pattern.group = m_candidate.group \/ m_pattern.group = <<"+">>
              /\ m_pattern.node = m_candidate.node \/ m_pattern.node = <<"+">>
              /\ \/ m_pattern.address_type = m_candidate.address_type
                 \/ /\ m_pattern.address_type = Device(<<"+">>)
                    /\ m_candidate.address_type.kind = "Device"
        /\ \/ /\ m_candidate.group = <<"+">>
              /\ m_pattern.group \notin {<<"+">>, m_candidate.group}
           \/ /\ m_candidate.node = <<"+">>
              /\ m_pattern.node \notin {<<"+">>, m_candidate.node}
           \/ /\ m_candidate.address_type = Device(<<"+">>)
              /\ m_pattern.address_type # m_candidate.address_type
           => ~m_matches

\* A literal pattern was matched against a candidate that has "+" for the
\* group and is equal to it everywhere else.
C29_Witness ==
    /\ m_pc = "done"
    /\ m_pattern = Address(<<"g">>, <<"g">>, Device(<<"g">>))
    /\ m_candidate = Address(<<"+">>, <<"g">>, Device(<<"g">>))
    /\ ~m_matches

\* The message-kind tokens, "+" included.
KindTokens == {<<"+">>} \cup {<<name>> : name \in TopicTypeNames}

\* C30: Topic::from_str accepts a string exactly when it has 4 or 5 segments,
\* segment 0 is spBv1.0 and segment 2 is a message-kind token; the topic then
\* has group = segment 1, node = segment 3, the Device named by segment 4
\* when there is one and Node otherwise; every other string gives an error
\* and no topic.
C30_TopicGrammar ==
    s_topic.kind # "none" =>
        LET n == SegmentCount(s_input)
            segment == split(s_input)
            accepted == /\ n \in {4, 5}
                        /\ segment[1] = SP_PREFIX
                        /\ segment[3] \in KindTokens
        IN
        /\ s_topic.kind = "Ok" <=> accepted
        /\ accepted =>
              /\ s_topic.prefix = SP_PREFIX
              /\ s_topic.address.group = segment[2]
              /\ s_topic.address.node = segment[4]
              /\ s_topic.address.address_type =
                    IF n = 5 THEN Device(segment[5]) ELSE Node
              /\ s_topic.topic_type =
                    IF segment[3] = <<"+">> THEN "Any" ELSE segment[3][1]
        /\ ~accepted =>
              /\ s_topic.kind = "Err"
              /\ s_topic = TopicErr(s_topic.message)
              /\ s_topic.message # ""

\* A topic of five segments was parsed into a Device topic.
C30_Witness ==
    /\ s_pc = "topic"
    /\ s_input = <<"spBv1.0", "/", "g", "/", "NDATA", "/", "g", "/", "+">>
    /\ s_topic = TopicOk(SP_PREFIX, Address(<<"g">>, <<"g">>, Device(<<"+">>)), "NDATA")

\* C31: a topic string of 4 or 5 segments with the prefix spBv1.0 and a known
\* message-kind token is written back, once parsed, as the string given.
C31_TopicRoundTrip ==
    (/\ s_pc = "topic_formatted"
     /\ SegmentCount(s_input) \in {4, 5}
     /\ split(s_input)[1] = SP_PREFIX
     /\ split(s_input)[3] \in KindTokens)
        => s_topic_formatted = s_input

\* A Device topic of kind NDATA was parsed and written back.
C31_Witness ==
    /\ s_pc = "topic_formatted"
    /\ s_input = <<"spBv1.0", "/", "g", "/", "NDATA", "/", "+", "/", "g">>
    /\ s_topic.topic_type = "NDATA"
    /\ s_topic_formatted = s_input

(***************************************************************************)
(* Claims on the telemetry connection (SpecUse).                           *)
(***************************************************************************)

\* The MQTT service resolves to no URL: the Directory knows none, or answers
\* with a list that holds none.
NoUrlKnown == u_resolved.kind = "Ok" /\ (~u_resolved.some \/ u_resolved.list = <<>>)

\* The messages of the MqttError of a connection that is not made.
ConnectionErrors ==
    {mqtt_connect(GivenHost, connects).message :
        connects \in ConnectOutcomes \ {"connected"}}

\* C32: with a host address given, get_mqtt_client connects to it and asks
\* neither Discovery nor Directory; with none given it connects to the first
\* URL known for the MQTT service; with no URL known it returns the MqttError
\* "No URL could be found", which no failed connection returns.
C32_MqttHostOrFirstUrl ==
    /\ u_host # NotUsed =>
          /\ u_host.url = GivenHost
          /\ u_mqtt = NotUsed => u_asked = {}
    /\ (u_mqtt # NotUsed /\ u_resolved.kind = "Ok" /\ ~NoUrlKnown) =>
          /\ u_mqtt.kind \in {"request", "Err"}
          /\ u_mqtt.url = UrlString(u_resolved.list[1])
          /\ u_mqtt.kind = "Err" => u_mqtt.message \in ConnectionErrors
    /\ (u_mqtt # NotUsed /\ NoUrlKnown) =>
          /\ u_mqtt = UseErr("No URL could be found", <<>>)
          /\ u_mqtt.message \notin ConnectionErrors

(***************************************************************************)
(* Claims on the service identifiers (SpecService).                        *)
(***************************************************************************)

\* C33: to_uuid gives every ServiceType an identifier of uuids::service and
\* no two of them the same one; ServiceType::new returns, for an identifier
\* of uuids::service, the variant that carries this identifier (the one
\* to_uuid maps to it, where service.rs has the variant), and None for every
\* other identifier.
C33_IdentifiersTotalInjective ==
    /\ y_uuid # "" =>
          /\ y_uuid \in ServiceUuids
          /\ \A other \in Services \ {y_variant} : to_uuid(other) # y_uuid
    /\ y_new # NotCalled =>
          IF y_id \in ServiceUuids
          THEN /\ y_new.some /\ y_new.uuid = y_id
               /\ y_new.variant \in Services => to_uuid(y_new.variant) = y_id
               /\ y_new.variant \notin Services => y_new.variant \in {"Git", "Cluster"}
          ELSE y_new = NoService

\* The identifier of the MQTT service was looked up and the identifier of
\* the ConfigDb service was asked for.
C33_Witness ==
    /\ y_id = MQTT /\ y_new = SomeService("MQTT", MQTT)
    /\ y_variant = "ConfigDb" /\ y_uuid = CONFIG_DB

(***************************************************************************)
(* Claims on Service::ping (SpecTrait).                                    *)
(***************************************************************************)
\* C37: Service::ping sends its request for /ping through the fetch pipeline;
\* it returns Ok(Some) for a response of status 200, Ok(None) for a response
\* of any other status, and an error only when the request itself failed.
C37_PingAnswersByStatus ==
    p_pc = "done" =>
        /\ p_reached
        /\ p_response = OkResp(OK) => p_result = PingSome
        /\ (p_response.kind = "Ok" /\ p_response.status # OK) => p_result = PingNone
        /\ p_result.kind = "Err" => p_response.kind = "Err"

(***************************************************************************)
(* Claims on ConfigDbInterface (SpecConfigDb).                             *)
(***************************************************************************)
\* The search behind the resolve that has returned answered this list.
SearchAnswered(list) ==
    /\ g_pc = "resolved"
    /\ g_reply.kind = "Ok" /\ g_reply.status = OK
    /\ g_reply.content = [decodable |-> TRUE, uuids |-> list]

\* C38: resolve returns the identifier when the search found exactly one, an
\* error when it found two or more, no result and no error when the search
\* was answered 404 or found none, and the error of the search as it is.
C38_ResolveByCount ==
    /\ \A list \in UuidLists(MaxFound) :
          SearchAnswered(list) =>
            /\ Len(list) = 1 => g_result = Found(<<list[1]>>)
            /\ Len(list) >= 2 => g_result.kind = "Err"
            /\ Len(list) = 0 => g_result = NotFound
    /\ (g_pc = "resolved" /\ g_reply.kind = "Ok" /\ g_reply.status = NOT_FOUND)
          => g_result = NotFound
    /\ (g_pc = "resolved" /\ search(g_reply).kind = "Err") => g_result = search(g_reply)

\* A search that found two identifiers, and the resolve returned an error.
C38_Witness ==
    /\ \E list \in UuidLists(MaxFound) : SearchAnswered(list) /\ Len(list) = 2
    /\ g_result.kind = "Err"

\* C39: create_object returns an error for an exclusive create answered 200;
\* otherwise the identifier of the answer for status 200 or 201 with a
\* decodable body; an error carrying the status for every other status; and
\* the error of fetch as it is.
C39_CreateObjectByStatus ==
    g_pc = "created" =>
        /\ (g_reply.kind = "Ok" /\ g_reply.status = OK /\ g_exclusive)
              => g_result.kind = "Err"
        /\ (/\ g_reply.kind = "Ok"
            /\ g_reply.status \in {OK, CREATED}
            /\ ~(g_reply.status = OK /\ g_exclusive)
            /\ g_reply.content.decodable)
              => g_result = Found(<<g_reply.content.uuids[1]>>)
        /\ (g_reply.kind = "Ok" /\ g_reply.status \notin {OK, CREATED})
              => (g_result.kind = "Err" /\ g_result.error.status = g_reply.status)
        /\ g_reply.kind = "Err" => g_result = Failed(g_reply.error)

\* An exclusive create of a given object, answered 200 with the registration
\* of the object that existed, has returned an error.
C39_Witness ==
    /\ g_pc = "created"
    /\ g_exclusive /\ g_obj # <<>>
    /\ g_reply.kind = "Ok" /\ g_reply.status = OK /\ g_reply.content.decodable
    /\ g_result.kind = "Err"

(***************************************************************************)
(* Claims on is_idempotent (SpecIdempotent).                               *)
(***************************************************************************)
\* C40: is_idempotent is false for a request that is not a GET, or has a
\* header, or has a non-empty body, and true for a GET with no header and no
\* body.
C40_IdempotentIsPlainGet ==
    i_pc = "done" =>
        /\ (\/ i_opts.method # "GET"
            \/ i_opts.headers # EmptyMap
            \/ i_opts.body = "SomeText") => ~i_result
        /\ (/\ i_opts.method = "GET"
            /\ i_opts.headers = EmptyMap
            /\ i_opts.body = "None") => i_result

====
